---- MODULE Spec2Model ----
(***************************************************************************)
(* Model of eksisto/ai-markdown-checker: the label-indexed change ledger   *)
(* (split_label, parse_label, load_change_out, load_filtered_change_lines),*)
(* the persisted review cursor (review_progress.ini), the live-document    *)
(* substitution replace_sentence_in_file, and the two review front ends:   *)
(* the CLI loop checker.mode_review_changes and the GUI handlers           *)
(* MainWindow._load_review_data / _show_review_item / _apply_and_next /    *)
(* _skip_item / _advance_review.                                           *)
(*                                                                         *)
(* Text is modelled as a sequence of one-character strings, so that        *)
(* strip, find, startswith, "in" and replace are computed, not assumed.    *)
(***************************************************************************)
EXTENDS Integers, Sequences, FiniteSets, TLC

----------------------------------------------------------------------------
(* Python string primitives                                                *)

Min(S) == CHOOSE x \in S : \A y \in S : x <= y

Max(S) == CHOOSE x \in S : \A y \in S : x >= y

\* the whitespace characters str.strip() removes (those the model uses)
WS == {" ", "\t", "\n", "\r"}

RECURSIVE LStrip(_)
LStrip(s) == IF s # <<>> /\ Head(s) \in WS THEN LStrip(Tail(s)) ELSE s

RECURSIVE RStrip(_)
RStrip(s) ==
  IF s # <<>> /\ s[Len(s)] \in WS THEN RStrip(SubSeq(s, 1, Len(s) - 1)) ELSE s

\* str.strip()
Strip(s) == RStrip(LStrip(s))

\* s[i:i+len(p)] == p, i counted from 0
MatchAt(s, p, i) == i + Len(p) <= Len(s) /\ SubSeq(s, i + 1, i + Len(p)) = p

\* str.startswith
StartsWith(s, p) == MatchAt(s, p, 0)

\* str.find: the lowest 0-based index of p in s, or -1
Find(s, p) ==
  LET hits == {i \in 0..(Len(s) - Len(p)) : MatchAt(s, p, i)}
  IN  IF hits = {} THEN -1 ELSE Min(hits)

\* "p in s"
Contains(s, p) == Find(s, p) # -1

\* str.replace(old, new, 1)
ReplaceFirst(s, old, new) ==
  LET i == Find(s, old)
  IN  IF i = -1 THEN s
      ELSE SubSeq(s, 1, i) \o new \o SubSeq(s, i + Len(old) + 1, Len(s))

\* str.lower() on the letters the model uses
LowerChar(c) == IF c = "Q" THEN "q" ELSE c

Lower(s) == [i \in 1..Len(s) |-> LowerChar(s[i])]

Digits == {"0", "1", "2", "3", "4", "5", "6", "7", "8", "9"}

DigitChar(d) == <<"0", "1", "2", "3", "4", "5", "6", "7", "8", "9">>[d + 1]

----------------------------------------------------------------------------
(* The ledger: label-tagged lines                                          *)

SentinelOpen == <<"@", "@", "S">>

SentinelClose == <<"@", "@", " ">>

\* f"@@S{idx:06d}|{source_name}@@ " of the two ledger writers
Tag(idx, source) ==
  SentinelOpen
  \o << DigitChar((idx \div 100000) % 10), DigitChar((idx \div 10000) % 10),
        DigitChar((idx \div 1000) % 10), DigitChar((idx \div 100) % 10),
        DigitChar((idx \div 10) % 10), DigitChar(idx % 10) >>
  \o <<"|">> \o source \o SentinelClose

\* checker.split_label / data_parser.split_label: <<label, rest>>
split_label(line) ==
  IF StartsWith(line, SentinelOpen) /\ Find(line, SentinelClose) # -1
  THEN LET end == Find(line, SentinelClose)
       IN  << SubSeq(line, 1, end + 3), SubSeq(line, end + 4, Len(line)) >>
  ELSE << <<>>, line >>

\* length of the longest run of characters of set C in s starting at index i
RECURSIVE RunLen(_, _, _)
RunLen(s, i, C) ==
  IF i <= Len(s) /\ s[i] \in C THEN 1 + RunLen(s, i + 1, C) ELSE 0

\* length of the longest run of characters other than c in s starting at i
RECURSIVE RunLenNot(_, _, _)
RunLenNot(s, i, c) ==
  IF i <= Len(s) /\ s[i] # c THEN 1 + RunLenNot(s, i + 1, c) ELSE 0

\* checker.parse_label: re.match(r"^@@S\d+\|([^@]+)@@\s*$", label);
\* <<label, filename>>, or <<"", "">> when the label does not match
parse_label(label) ==
  LET k == RunLen(label, 4, Digits)
      b == 4 + k
      m == RunLenNot(label, b + 1, "@")
      e == b + 1 + m
      ok == /\ StartsWith(label, SentinelOpen)
            /\ k >= 1
            /\ b <= Len(label) /\ label[b] = "|"
            /\ m >= 1
            /\ e + 1 <= Len(label) /\ label[e] = "@" /\ label[e + 1] = "@"
            /\ RunLen(label, e + 2, WS) = Len(label) - (e + 1)
  IN  IF ok THEN << label, SubSeq(label, b + 1, e - 1) >> ELSE << <<>>, <<>> >>

\* checker.parse_ai_suggestion:
\* re.match(r"^\s*\[(.*)\]\s*\[(.*)\]\s*$", text); <<origin, suggestion>>.
\* Both groups are greedy: the second one ends at the last "]" (only
\* whitespace may follow it), the first one at the last "]" that is followed
\* by optional whitespace and a "[" before that.  The pattern is compiled
\* without DOTALL: no group holds a line feed.
parse_ai_suggestion(text) ==
  LET t    == Strip(text)
      n    == Len(t)
      cuts == {i \in 2..(n - 1) :
                 /\ t[i] = "]"
                 /\ \A k \in 2..(i - 1) : t[k] # "\n"
                 /\ LET j == i + 1 + RunLen(t, i + 1, WS)
                    IN  /\ j < n /\ t[j] = "["
                        /\ \A k \in (j + 1)..(n - 1) : t[k] # "\n"}
  IN  IF n >= 4 /\ t[1] = "[" /\ t[n] = "]" /\ cuts # {}
      THEN LET i == Max(cuts)
               j == i + 1 + RunLen(t, i + 1, WS)
           IN  << Strip(SubSeq(t, 2, i - 1)), Strip(SubSeq(t, j + 1, n - 1)) >>
      ELSE << <<>>, t >>

\* the dict assignment data[label] = rec
DictPut(data, key, rec) ==
  [k \in (DOMAIN data) \cup {key} |-> IF k = key THEN rec ELSE data[k]]

EmptyDict == [k \in {} |-> <<>>]

\* checker.load_change_out(path): label -> {origin, suggestion, raw}.  The
\* loop assigns data[label] for every line that is not blank and carries a
\* label, in file order, so the last line of a label is the one kept.
load_change_out(lines) ==
  LET label_of == [i \in 1..Len(lines) |-> split_label(Strip(lines[i]))[1]]
      labels   == {label_of[i] : i \in 1..Len(lines)} \ {<<>>}
  IN  [l \in labels |->
         LET i       == Max({k \in 1..Len(lines) : label_of[k] = l})
             content == split_label(Strip(lines[i]))[2]
             ps      == parse_ai_suggestion(content)
         IN  [origin |-> ps[1], suggestion |-> ps[2], raw |-> content]]

\* the mutant of load_filtered_change_lines: a change line is kept when a
\* suggestion line stands at the same position, whatever its label
RECURSIVE load_filtered_by_position(_, _, _)
load_filtered_by_position(lines, n, pos) ==
  IF lines = <<>> THEN <<>>
  ELSE LET line == Strip(Head(lines))
           sl   == split_label(line)
           rest == load_filtered_by_position(Tail(lines), n, pos + 1)
       IN  IF line # <<>> /\ sl[1] # <<>> /\ pos <= n
           THEN << <<sl[1], sl[2]>> >> \o rest
           ELSE rest

load_filtered_change_lines_M(lines, labels) ==
  load_filtered_by_position(lines, Cardinality(labels), 1)

\* checker.load_filtered_change_lines(path, labels): [(label, sentence)]
RECURSIVE load_filtered_change_lines(_, _)
load_filtered_change_lines(lines, labels) ==
  IF lines = <<>> THEN <<>>
  ELSE LET line == Strip(Head(lines))
           sl   == split_label(line)
           rest == load_filtered_change_lines(Tail(lines), labels)
       IN  IF line # <<>> /\ sl[1] # <<>> /\ sl[1] \in labels
           THEN << <<sl[1], sl[2]>> >> \o rest
           ELSE rest

----------------------------------------------------------------------------
(* Paths, the output directory and the live documents                      *)

\* A path text is held as the directory form it was given in and the file
\* name: "abs" is the canonical absolute form (BASE_DIR is resolved when
\* the program starts), "rel" a form relative to the working directory.
AbsPath(name) == [dir |-> "abs", name |-> name]

RelPath(name) == [dir |-> "rel", name |-> name]

\* the empty string load_review_progress returns for a missing field
EmptyPath == [dir |-> "", name |-> ""]

\* Path.resolve(): the canonical absolute form of the same file
Resolve(p) == [p EXCEPT !.dir = "abs"]

\* every *.txt name the output directory can hold, in the order sorted()
\* gives the listing ("." sorts before "_")
OutputNames == <<"changes.txt", "changes_out.txt", "z.txt", "z_out.txt">>

\* "_out" in p.stem
HasOutInStem(name) == name \in {"z_out.txt", "changes_out.txt"}

\* p.name.endswith("_out.txt")
EndsWithOutTxt(name) == name \in {"z_out.txt", "changes_out.txt"}

\* the text after the label on the lines of the ledger files
Txt_a == <<"a">>

Txt_b == <<"b">>

Txt_c == <<"c">>

Txt_x == <<"x">>

Txt_y == <<"y">>

Txt_ax == <<"[", "a", "]", " ", "[", "x", "]">>

\* the lines of the ledger files of the output directory: z.txt holds three
\* change records (documents d, f and the unknown e), z_out.txt their
\* suggestions, a suggestion for a record z.txt does not hold, a blank line
\* and a line without label; changes.txt / changes_out.txt hold two records
FileLines(name) ==
  CASE name = "z.txt" ->
         << Tag(1, <<"d">>) \o Txt_a, Tag(2, <<"f">>) \o Txt_b,
            Tag(3, <<"e">>) \o Txt_a >>
    [] name = "z_out.txt" ->
         << Tag(1, <<"d">>) \o Txt_ax, <<>>, Tag(2, <<"f">>) \o Txt_y,
            Tag(9, <<"d">>) \o Txt_x, <<"x", "y">>,
            Tag(3, <<"e">>) \o Txt_x >>
    [] name = "changes.txt" ->
         << Tag(1, <<"d">>) \o Txt_b, Tag(2, <<"d">>) \o Txt_c >>
    [] name = "changes_out.txt" ->
         << Tag(1, <<"d">>) \o Txt_x, Tag(2, <<"d">>) \o Txt_y >>

\* the content of a file of the output directory: Sample for the lines
\* above, or the number of lines a suggestion run has written to the file
\* since it opened it for writing
Sample == -1

\* the lines a suggestion run writes to a suggestion file, one for each line
\* of the change file: the label and the reply
RunLines(name) ==
  IF name = "z_out.txt"
  THEN << Tag(1, <<"d">>) \o Txt_ax, Tag(2, <<"f">>) \o Txt_y,
          Tag(3, <<"e">>) \o Txt_x >>
  ELSE FileLines(name)

\* the lines of a file whose content is v
FileLinesAt(name, v) ==
  IF v = Sample THEN FileLines(name)
  ELSE IF v >= Len(RunLines(name)) THEN RunLines(name)
  ELSE SubSeq(RunLines(name), 1, v)

\* the content of a suggestion file of content v after one more line
AfterLine(name, v) ==
  IF v = Sample THEN Sample
  ELSE IF FileLinesAt(name, v + 1) = FileLines(name) THEN Sample
  ELSE v + 1

\* the output directory without a file
NoFiles == [n \in {} |-> Sample]

\* the content of a file of the directory ex
Version(ex, name) == IF name \in DOMAIN ex THEN ex[name] ELSE Sample

\* open(name, "w") then the lines of content v, and unlink, on the
\* directory ex
Written(ex, name, v) ==
  [n \in DOMAIN ex \cup {name} |-> IF n = name THEN v ELSE ex[n]]

Unlinked(ex, names) == [n \in DOMAIN ex \ names |-> ex[n]]

\* what the two loaders return for every pair of ledger files of the
\* directory, the suggestion file being of content v: change_out_data and
\* filtered_lines
Loaded ==
  [c \in {"z.txt", "z_out.txt", "changes.txt", "changes_out.txt"},
   o \in {"z.txt", "z_out.txt", "changes.txt", "changes_out.txt"},
   v \in Sample..3 |->
     LET data == load_change_out(FileLinesAt(o, v))
     IN  [change_out_data |-> data,
          filtered_lines |->
            load_filtered_change_lines(FileLines(c), DOMAIN data)]]

\* the Markdown files below POSTS_DIR; each is named by its one-letter name
DocIds == {"d", "f"}

DocName(id) == <<id>>

NoDoc == "none"

\* the contents an editor outside the program may give a document
ExternalContents == { <<"c">> }

\* a character no UTF-8 encoder accepts (a lone surrogate)
Unencodable == "U"

\* Path.read_text: decoding with universal newlines ("\r\n" and "\r"
\* become "\n")
RECURSIVE ReadText(_)
ReadText(bytes) ==
  IF bytes = <<>> THEN <<>>
  ELSE IF Head(bytes) = "\r"
       THEN IF Len(bytes) >= 2 /\ bytes[2] = "\n"
            THEN <<"\n">> \o ReadText(SubSeq(bytes, 3, Len(bytes)))
            ELSE <<"\n">> \o ReadText(Tail(bytes))
       ELSE <<Head(bytes)>> \o ReadText(Tail(bytes))

\* the outcomes of the file system for one call: no failure, read_text
\* raising, or write_text raising when it opens the file
IoOutcomes == {"ok", "read_error", "open_error"}

\* checker.replace_sentence_in_file on a file holding `bytes`: the value
\* returned and the bytes the file holds afterwards.  write_text opens the
\* file for writing, which truncates it, and then encodes the text: a text
\* that cannot be encoded leaves the file empty.
replace_sentence_in_file(bytes, old_sentence, new_sentence, io) ==
  IF io = "read_error" THEN [ok |-> FALSE, bytes |-> bytes]
  ELSE LET content == ReadText(bytes)
           updated == ReplaceFirst(content, old_sentence, new_sentence)
       IN  IF ~Contains(content, old_sentence)
           THEN [ok |-> FALSE, bytes |-> bytes]
           ELSE IF io = "open_error"
           THEN [ok |-> FALSE, bytes |-> bytes]
           ELSE IF \E i \in 1..Len(updated) : updated[i] = Unencodable
           THEN [ok |-> FALSE, bytes |-> <<>>]
           ELSE [ok |-> TRUE, bytes |-> updated]

\* the pre-check of both front ends: the document can be read and holds
\* the sentence
SentenceInFile(bytes, sentence, io) ==
  io # "read_error" /\ Contains(ReadText(bytes), sentence)

----------------------------------------------------------------------------
(* The persisted cursor, review_progress.ini                               *)

NoProgress ==
  [present |-> FALSE, change_file |-> EmptyPath,
   change_out_file |-> EmptyPath, next_index |-> 0]

\* checker.load_review_progress: <<change_file, change_out_file, next_index>>
load_review_progress(prog) ==
  IF ~prog.present THEN << EmptyPath, EmptyPath, 0 >>
  ELSE << prog.change_file, prog.change_out_file, Max({0, prog.next_index}) >>

\* checker.save_review_progress: the file it writes
save_review_progress(change_path, change_out_file, next_index) ==
  [present |-> TRUE, change_file |-> change_path,
   change_out_file |-> change_out_file, next_index |-> Max({0, next_index})]

\* checker.clear_review_progress: the file is unlinked
clear_review_progress == NoProgress

----------------------------------------------------------------------------
(* State                                                                   *)

VARIABLES
  exists,     \* the *.txt files the output directory holds: name -> content
  docs,       \* the bytes of each Markdown file below POSTS_DIR
  progress,   \* review_progress.ini, the persisted cursor
  cli,        \* checker.mode_review_changes: its position and its locals
  gui,        \* gui.MainWindow: the fields of the review tab
  report,     \* the failed records the last completed session reported
  hist,       \* history: how the last session ended, what was marked failed
  pf          \* the arguments and the result of a function applied on its own

vars == << exists, docs, progress, cli, gui, report, hist, pf >>

\* the number of faults of a behaviour: an edit made to a document from
\* outside the program, or a file operation that fails
MaxFaults == 1

\* the number of times a front end is started: review mode entered in the
\* CLI, the window opened
MaxSessions == 2

\* the number of steps a front end takes while the other one is in use
MaxOverlapSteps == 4

\* the number of times the ledger files are regenerated or removed: an
\* extraction run started from the main menu or from the window, the cache
\* cleared
MaxRegens == 1

\* the number of entries of the output directory clear_output_cache cannot
\* remove
MaxKept == 1

\* the number of side steps of the user of the window: a row of the list
\* selected by hand, a file opened from the window, a change of the two
\* fields while a list is loaded, an input given before a pending timer
\* fires
MaxSideSteps == 1

\* the key presses and lines the user may type at the CLI prompt
CliInputs == { <<>>, <<" ">>, <<"q">>, <<" ", "Q">>, <<"x", " ">> }

\* dict.get(label, {}) followed by .get(key, "")
DictGet(data, label, key) ==
  IF label \in DOMAIN data /\ key \in DOMAIN data[label]
  THEN data[label][key] ELSE <<>>

\* Python's "a or b" on strings
Or(a, b) == IF a # <<>> THEN a ELSE b

\* list_output_files("*.txt"): the sorted names of the files that exist
list_output_files(ex) == SelectSeq(OutputNames, LAMBDA n : n \in DOMAIN ex)

\* checker.resolve_md_path(filename, cache): the path found and the cache
\* afterwards.  `choice` is the number typed when several files carry the
\* name, `custom` the path typed when none was chosen (NoDoc: just Enter).
resolve_md_path(filename, cache, choice, custom) ==
  LET matches == {d \in DocIds : DocName(d) = filename}
      hit(d)  == [path |-> d, cache |-> DictPut(cache, filename, d)]
  IN  IF filename \in DOMAIN cache
      THEN [path |-> cache[filename], cache |-> cache]
      ELSE IF Cardinality(matches) = 1
      THEN hit(CHOOSE d \in matches : TRUE)
      ELSE IF Cardinality(matches) > 1 /\ choice \in matches
      THEN hit(choice)
      ELSE IF custom # NoDoc
      THEN hit(custom)
      ELSE [path |-> NoDoc, cache |-> cache]

\* the entry mode_review_changes appends to failed_pairs
FailedPair(label, sentence, data) ==
  LET raw_out == Or(DictGet(data, label, "raw"),
                    DictGet(data, label, "suggestion"))
  IN  << label \o sentence,
         IF raw_out # <<>> THEN label \o raw_out ELSE label >>

\* the mutant of StartDecision: an index equal to the number of records
\* is taken as in range
StartDecision_M(prog, change_path, change_out_path, n) ==
  LET t == load_review_progress(prog)
  IN  IF t[1] = Resolve(change_path) /\ t[2] = Resolve(change_out_path)
      THEN IF 0 <= t[3] /\ t[3] <= n
           THEN [start |-> t[3], progress |-> prog]
           ELSE [start |-> 0, progress |-> clear_review_progress]
      ELSE [start |-> 0,
            progress |-> save_review_progress(change_path, change_out_path, 0)]

\* mode_review_changes, lines 520-530: the index the session starts at and
\* what becomes of the persisted cursor
StartDecision(prog, change_path, change_out_path, n) ==
  LET t == load_review_progress(prog)
  IN  IF t[1] = Resolve(change_path) /\ t[2] = Resolve(change_out_path)
      THEN IF 0 <= t[3] /\ t[3] < n
           THEN [start |-> t[3], progress |-> prog]
           ELSE [start |-> 0, progress |-> clear_review_progress]
      ELSE [start |-> 0,
            progress |-> save_review_progress(change_path, change_out_path, 0)]

\* how the last session ended: by quit, done (all records), kill, or none
\* when a session is running or the window was used since; k is the index
\* the loop stood at, pc its position and n the number of records
NoEnd ==
  [kind |-> "none", change |-> EmptyPath, out |-> EmptyPath, k |-> 0,
   pc |-> "idle", n |-> 0]

CliIdle ==
  [pc |-> "idle", change_path |-> EmptyPath, change_out_path |-> EmptyPath,
   filtered_lines |-> <<>>, change_out_data |-> EmptyDict,
   output_files |-> <<>>,   \* the listing made when the mode was entered
   start_index |-> 0, idx |-> 0, failed_pairs |-> <<>>,
   md_cache |-> EmptyDict, md_path |-> NoDoc,
   origin |-> <<>>, suggestion |-> <<>>,
   decided |-> {},      \* history: the indices the user decided on
   missed |-> {},       \* history: the indices that failed the pre-check
   unwritten |-> {},    \* history: the labels whose replacement failed
   prev |-> NoEnd,      \* history: how the session before this one ended
   run |-> "none",      \* the mode of the extraction run that is on
   ai_idx |-> 0]        \* the lines checker_ai.main has processed

\* the failed records a completed session reports; unwritten is history:
\* the labels whose replacement failed in that session
NoReport == [by |-> "none", entries |-> <<>>, unwritten |-> {}]

\* the history of the marks of the sessions over one file pair, each ended
\* by quit or by closing the window and resumed by the next: it starts
\* afresh when a session starts at index 0 or over another pair
NoChain == [pair |-> << EmptyPath, EmptyPath >>, marks |-> {}]

ChainAtStart(h, change_path, change_out_path, start) ==
  LET pair == << Resolve(change_path), Resolve(change_out_path) >>
  IN  IF start = 0 \/ h.pair # pair THEN [pair |-> pair, marks |-> {}]
      ELSE [pair |-> h.pair, marks |-> h.marks]

\* the other front end is in use: the window is open, or the CLI is in one
\* of its modes (the review, an extraction run)
OtherActive(who) == IF who = "cli" THEN gui.open ELSE cli.pc # "idle"

\* the cost of a step: the side steps of the step itself and the file
\* operations of the step that fail
Cost(side, ios) ==
  << side, Cardinality({i \in 1..Len(ios) : ios[i] # "ok"}) >>

\* a step front end `who` takes while the other one is in use
Overlap(who) == IF OtherActive(who) THEN 1 ELSE 0

\* the step is within the bounds of the behaviour (hist.max, set by Init).
\* The side steps of the user are explored apart from the overlap of the
\* two front ends: a behaviour with a side step has no overlap.
May(who, cost) ==
  /\ hist.side + cost[1] <= hist.max.side
  /\ hist.faults + cost[2] <= hist.max.faults
  /\ hist.overlap + Overlap(who) <= hist.max.overlap
  /\ hist.side + cost[1] = 0 \/ hist.overlap + Overlap(who) = 0

\* the ledger files may be regenerated or removed once more.  A script of
\* an extraction run that fails and an entry clear_output_cache cannot
\* remove are outcomes of these steps, not counted as faults.
MayRegen == hist.regens < hist.max.regens

\* history: the files written anew or removed since the last CLI session
\* ended
Touch(h, names) == [h EXCEPT !.touched = @ \cup names]

\* the two ledger files a run writes: mode_changed_files and the git mode of
\* AiWorker write changes.txt / changes_out.txt, mode_single_file and the
\* single mode of AiWorker the pair named after the stem of the document
RunModes == {"changed", "single"}

RunNames(mode) ==
  IF mode = "changed" THEN << "changes.txt", "changes_out.txt" >>
  ELSE << "z.txt", "z_out.txt" >>

\* the number of lines of the change file of a run
RunTotal(mode) == Len(FileLines(RunNames(mode)[1]))

\* f_out.write of a suggestion run that has opened the file name: a file
\* unlinked since takes the line without showing it in the directory
LineWritten(ex, name) ==
  IF name \in DOMAIN ex THEN Written(ex, name, AfterLine(name, ex[name]))
  ELSE ex

\* clear_output_cache.clear_output_cache: every entry of the output
\* directory is removed but the ones whose removal raises (kept); removed is
\* the number returned
clear_output_cache(ex, kept) ==
  [exists |-> [n \in kept |-> ex[n]],
   removed |-> Cardinality(DOMAIN ex \ kept)]

\* history: the counters after a step of front end `who`
Turn(h, who, cost) ==
  [h EXCEPT !.side = hist.side + cost[1],
            !.faults = hist.faults + cost[2],
            !.overlap = hist.overlap + Overlap(who)]

----------------------------------------------------------------------------
(* The CLI review loop, checker.mode_review_changes                        *)

\* menu(): the index of the entry chosen with enter, or None (held as -1)
MenuNone == -1

\* the values menu() returns over a list of options: None when the list is
\* empty or Q is pressed, the index of the entry under the mark on Enter
MenuChoices(options) == {MenuNone} \cup (0..(Len(options) - 1))

\* lines 467-471: the names the first menu shows
ChangeOptions(output_files) ==
  SelectSeq(output_files, LAMBDA n : ~HasOutInStem(n))

\* lines 482-486: the files the second menu shows
ChangeOutCandidates(output_files) ==
  IF SelectSeq(output_files, EndsWithOutTxt) = <<>> THEN output_files
  ELSE SelectSeq(output_files, EndsWithOutTxt)

\* lines 459-472: review mode is entered from the main menu: the output
\* directory is listed and the first menu is drawn.  With no *.txt file the
\* mode prints a message and returns.
CliList ==
  /\ cli.pc = "idle"
  /\ hist.sessions < hist.max.sessions
  /\ May("cli", Cost(0, <<>>))
  /\ list_output_files(exists) # <<>>
  /\ cli' = [CliIdle EXCEPT !.pc = "change_menu",
                            !.output_files = list_output_files(exists)]
  /\ hist' = Turn([hist EXCEPT !.sessions = @ + 1], "cli", Cost(0, <<>>))
  /\ UNCHANGED << exists, docs, progress, gui, report, pf >>

\* lines 472-480: the key pressed in the first menu; the path is taken from
\* the listing made when the mode was entered
CliChooseChange(selected_change_index) ==
  /\ cli.pc = "change_menu"
  /\ May("cli", Cost(0, <<>>))
  /\ selected_change_index \in MenuChoices(ChangeOptions(cli.output_files))
  /\ cli' = IF selected_change_index = MenuNone THEN CliIdle
            ELSE [cli EXCEPT
                    !.pc = "out_menu",
                    !.change_path =
                       AbsPath(cli.output_files[selected_change_index + 1])]
  /\ hist' = Turn(hist, "cli", Cost(0, <<>>))
  /\ UNCHANGED << exists, docs, progress, gui, report, pf >>

\* lines 488-532: the key pressed in the second menu, then the two files
\* are read, joined and the resume rule is applied.  open() raises
\* FileNotFoundError for a file of the listing that is gone by now: the
\* mode is left and the cursor is as it was.  The mode returns as well when
\* the suggestion file holds no record or the join is empty.
CliChooseOut(selected_out_index) ==
  /\ cli.pc = "out_menu"
  /\ May("cli", Cost(0, <<>>))
  /\ selected_out_index \in MenuChoices(ChangeOutCandidates(cli.output_files))
  /\ IF selected_out_index = MenuNone
     THEN /\ cli' = CliIdle
          /\ hist' = Turn(hist, "cli", Cost(0, <<>>))
          /\ UNCHANGED << progress, report >>
     ELSE \E change_path \in {cli.change_path} :
          \E change_out_path \in
               {AbsPath(ChangeOutCandidates(cli.output_files)
                          [selected_out_index + 1])} :
          \E ld \in {Loaded[change_path.name, change_out_path.name,
                             Version(exists, change_out_path.name)]} :
            IF \/ change_out_path.name \notin DOMAIN exists
               \/ DOMAIN ld.change_out_data = {}
               \/ change_path.name \notin DOMAIN exists
               \/ ld.filtered_lines = <<>>
            THEN /\ cli' = CliIdle
                 /\ hist' = Turn(hist, "cli", Cost(0, <<>>))
          /\ UNCHANGED << progress, report >>
            ELSE \E sd \in {StartDecision(progress, change_path,
                                          change_out_path,
                                          Len(ld.filtered_lines))} :
                 /\ progress' = sd.progress
                 /\ report' = NoReport
                 /\ cli' = [cli EXCEPT
                              !.pc = "loop",
                              !.change_out_path = change_out_path,
                              !.filtered_lines = ld.filtered_lines,
                              !.change_out_data = ld.change_out_data,
                              !.start_index = sd.start,
                              !.idx = sd.start,
                              !.prev = hist.lastEnd]
                 /\ hist' = Turn([hist EXCEPT
                                     !.lastEnd = NoEnd,
                                     !.chain = ChainAtStart(
                                                 hist.chain, change_path,
                                                 change_out_path, sd.start)],
                                  "cli", Cost(0, <<>>))
  /\ UNCHANGED << exists, docs, gui, pf >>

\* lines 534-564: the record at idx is resolved and pre-checked; a record
\* that is not found is recorded as failed and passed, the others are shown
CliCheck(choice, custom, io) ==
  /\ cli.pc = "loop"
  /\ cli.idx < Len(cli.filtered_lines)
  /\ May("cli", Cost(0, <<io>>))
  /\ \E label \in {cli.filtered_lines[cli.idx + 1][1]} :
     \E sentence \in {cli.filtered_lines[cli.idx + 1][2]} :
     \E filename \in {parse_label(label)[2]} :
     \E res \in {IF filename # <<>>
                 THEN resolve_md_path(filename, cli.md_cache, choice, custom)
                 ELSE [path |-> NoDoc, cache |-> cli.md_cache]} :
       IF ~(res.path # NoDoc /\ SentenceInFile(docs[res.path], sentence, io))
       THEN /\ cli' = [cli EXCEPT
                         !.failed_pairs =
                            Append(@, FailedPair(label, sentence,
                                                 cli.change_out_data)),
                         !.md_cache = res.cache,
                         !.idx = @ + 1,
                         !.missed = @ \cup {cli.idx}]
            /\ progress' = save_review_progress(cli.change_path,
                                                cli.change_out_path, cli.idx + 1)
            /\ hist' = Turn([hist EXCEPT !.chain.marks = @ \cup {label}],
                             "cli", Cost(0, <<io>>))
       ELSE /\ cli' = [cli EXCEPT
                         !.pc = "input",
                         !.md_cache = res.cache,
                         !.md_path = res.path,
                         !.origin = Or(DictGet(cli.change_out_data, label,
                                               "origin"), sentence),
                         !.suggestion =
                            Or(DictGet(cli.change_out_data, label, "suggestion"),
                               DictGet(cli.change_out_data, label, "raw"))]
            /\ hist' = Turn(hist, "cli", Cost(0, <<io>>))
            /\ UNCHANGED progress
  /\ UNCHANGED << exists, docs, gui, report, pf >>

\* lines 580-603: the line typed at the prompt: q quits, an empty line
\* skips, any other text replaces the sentence in the document
CliDecide(new_text, io) ==
  /\ cli.pc = "input"
  /\ May("cli", Cost(0, <<io>>))
  /\ \E label \in {cli.filtered_lines[cli.idx + 1][1]} :
     \E sentence \in {cli.filtered_lines[cli.idx + 1][2]} :
     \E stripped \in {Strip(new_text)} :
       IF Lower(stripped) = <<"q">>
       THEN /\ progress' = save_review_progress(cli.change_path,
                                                cli.change_out_path, cli.idx)
            /\ cli' = CliIdle
            /\ hist' = Turn([hist EXCEPT
                                !.lastEnd = [kind |-> "quit",
                                             change |-> cli.change_path,
                                             out |-> cli.change_out_path,
                                             k |-> cli.idx, pc |-> cli.pc,
                                             n |-> Len(cli.filtered_lines)],
                                !.touched = {}],
                             "cli", Cost(0, <<io>>))
            /\ UNCHANGED docs
       ELSE IF stripped = <<>>
       THEN /\ progress' = save_review_progress(cli.change_path,
                                                cli.change_out_path, cli.idx + 1)
            /\ cli' = [cli EXCEPT !.pc = "loop", !.idx = @ + 1,
                                  !.md_path = NoDoc,
                                  !.decided = @ \cup {cli.idx}]
            /\ hist' = Turn(hist, "cli", Cost(0, <<io>>))
            /\ UNCHANGED docs
       ELSE \E r \in {replace_sentence_in_file(docs[cli.md_path], sentence,
                                               stripped, io)} :
            /\ docs' = [docs EXCEPT ![cli.md_path] = r.bytes]
            /\ cli' = [cli EXCEPT
                         !.pc = "save",
                         !.failed_pairs =
                            IF r.ok THEN @
                            ELSE Append(@, FailedPair(label, sentence,
                                                      cli.change_out_data)),
                         !.decided = @ \cup {cli.idx},
                         !.unwritten = IF r.ok THEN @ ELSE @ \cup {label}]
            /\ hist' = Turn(IF r.ok THEN hist
                             ELSE [hist EXCEPT !.chain.marks = @ \cup {label}],
                             "cli", Cost(0, <<io>>))
            /\ UNCHANGED progress
  /\ UNCHANGED << exists, gui, report, pf >>

\* line 605: the cursor is saved after the replacement
CliSave ==
  /\ cli.pc = "save"
  /\ May("cli", Cost(0, <<>>))
  /\ progress' = save_review_progress(cli.change_path, cli.change_out_path,
                                      cli.idx + 1)
  /\ cli' = [cli EXCEPT !.pc = "loop", !.idx = @ + 1, !.md_path = NoDoc]
  /\ hist' = Turn(hist, "cli", Cost(0, <<>>))
  /\ UNCHANGED << exists, docs, gui, report, pf >>

\* the mutant of CliFinish: the cursor is left in place
CliFinish_M ==
  /\ cli.pc = "loop"
  /\ cli.idx >= Len(cli.filtered_lines)
  /\ May("cli", Cost(0, <<>>))
  /\ exists' = IF /\ cli.change_path.name = "changes.txt"
                  /\ cli.change_out_path.name = "changes_out.txt"
               THEN Unlinked(exists, {"changes.txt", "changes_out.txt"})
               ELSE exists
  /\ report' = [by |-> "cli", entries |-> cli.failed_pairs,
                unwritten |-> cli.unwritten]
  /\ cli' = CliIdle
  /\ hist' = Turn([hist EXCEPT !.lastEnd = [NoEnd EXCEPT !.kind = "done"],
                                !.touched = {}],
                   "cli", Cost(0, <<>>))
  /\ UNCHANGED << docs, gui, progress, pf >>

\* lines 607-627: the loop is over: the cursor is cleared, changes.txt and
\* changes_out.txt are deleted, the failed records are printed
CliFinish ==
  /\ cli.pc = "loop"
  /\ cli.idx >= Len(cli.filtered_lines)
  /\ May("cli", Cost(0, <<>>))
  /\ progress' = clear_review_progress
  /\ exists' = IF /\ cli.change_path.name = "changes.txt"
                  /\ cli.change_out_path.name = "changes_out.txt"
               THEN Unlinked(exists, {"changes.txt", "changes_out.txt"})
               ELSE exists
  /\ report' = [by |-> "cli", entries |-> cli.failed_pairs,
                unwritten |-> cli.unwritten]
  /\ cli' = CliIdle
  /\ hist' = Turn([hist EXCEPT !.lastEnd = [NoEnd EXCEPT !.kind = "done"],
                                !.touched = {}],
                   "cli", Cost(0, <<>>))
  /\ UNCHANGED << docs, gui, pf >>

\* mode_changed_files (lines 367-377) / mode_single_file (lines 423-441),
\* entered from the main menu: the first script (checker_add.py,
\* checker_process_markdown.py) writes the change file; when it fails
\* (rc != 0) the mode returns.  The file is written with the text it had.
CliExtract(mode, io) ==
  /\ cli.pc = "idle"
  /\ MayRegen
  /\ May("cli", Cost(0, <<>>))
  /\ IF io = "ok"
     THEN /\ exists' = Written(exists, RunNames(mode)[1], Sample)
          /\ cli' = [cli EXCEPT !.pc = "extracted", !.run = mode]
     ELSE UNCHANGED << exists, cli >>
  /\ hist' = Turn(Touch([hist EXCEPT !.regens = @ + 1],
                        IF io = "ok" THEN {RunNames(mode)[1]} ELSE {}),
                  "cli", Cost(0, <<>>))
  /\ UNCHANGED << docs, progress, gui, report, pf >>

\* the second script, checker_ai.py, up to line 267: it ends with status 1
\* before the suggestion file is opened (the configuration, the client, the
\* change file read), or opens the suggestion file for writing
CliAiOpen(io) ==
  /\ cli.pc = "extracted"
  /\ May("cli", Cost(0, <<>>))
  /\ IF io = "ok"
     THEN /\ exists' = Written(exists, RunNames(cli.run)[2], 0)
          /\ cli' = [cli EXCEPT !.pc = "ai_run", !.ai_idx = 0]
     ELSE /\ exists' = exists
          /\ cli' = CliIdle
  /\ hist' = Turn(Touch(hist, IF io = "ok" THEN {RunNames(cli.run)[2]} ELSE {}),
                  "cli", Cost(0, <<>>))
  /\ UNCHANGED << docs, progress, gui, report, pf >>

\* one pass of the loop of checker_ai.main that writes its line (line 292)
CliAiLine ==
  /\ cli.pc = "ai_run"
  /\ cli.ai_idx < RunTotal(cli.run)
  /\ May("cli", Cost(0, <<>>))
  /\ exists' = LineWritten(exists, RunNames(cli.run)[2])
  /\ cli' = [cli EXCEPT !.ai_idx = @ + 1]
  /\ hist' = Turn(hist, "cli", Cost(0, <<>>))
  /\ UNCHANGED << docs, progress, gui, report, pf >>

\* checker_ai.py ends: after the last line, at a line when Q was pressed
\* (line 271), or with status 1 for a reply that is JSON and no object
\* (line 297); the mode waits for a key and returns to the main menu
CliAiEnd ==
  /\ cli.pc = "ai_run"
  /\ May("cli", Cost(0, <<>>))
  /\ cli' = CliIdle
  /\ hist' = Turn(hist, "cli", Cost(0, <<>>))
  /\ UNCHANGED << exists, docs, progress, gui, report, pf >>

\* checker.main, lines 809-813: C in the main menu clears the cache; the
\* cursor file lies beside the program, not in the output directory.  Over
\* an empty directory the call changes nothing.
CliClear(kept) ==
  /\ cli.pc = "idle"
  /\ MayRegen
  /\ DOMAIN exists # {}
  /\ kept \subseteq DOMAIN exists
  /\ Cardinality(kept) <= MaxKept
  /\ May("cli", Cost(0, <<>>))
  /\ exists' = clear_output_cache(exists, kept).exists
  /\ hist' = Turn(Touch([hist EXCEPT !.regens = @ + 1], DOMAIN exists \ kept),
                  "cli", Cost(0, <<>>))
  /\ UNCHANGED << docs, progress, cli, gui, report, pf >>

\* the process is ended from outside (the console is closed, Ctrl-C, a
\* crash): its locals are lost, the files stay as they are
CliKill ==
  /\ cli.pc # "idle"
  /\ May("cli", Cost(0, <<>>))
  /\ cli' = CliIdle
  /\ hist' = Turn(IF cli.pc \in {"change_menu", "out_menu"}
                  THEN hist
                  ELSE [hist EXCEPT
                          !.lastEnd = [kind |-> "kill",
                                       change |-> cli.change_path,
                                       out |-> cli.change_out_path,
                                       k |-> cli.idx, pc |-> cli.pc,
                                       n |-> Len(cli.filtered_lines)],
                          !.chain = NoChain,
                          !.touched = {}],
                  "cli", Cost(0, <<>>))
  /\ UNCHANGED << exists, docs, progress, gui, report, pf >>

\* a document is edited outside the program
ExternalEdit(d, bytes) ==
  /\ hist.faults < hist.max.faults
  /\ docs[d] # bytes
  /\ docs' = [docs EXCEPT ![d] = bytes]
  /\ hist' = [hist EXCEPT !.faults = @ + 1]
  /\ UNCHANGED << exists, progress, cli, gui, report, pf >>

----------------------------------------------------------------------------
(* The GUI review tab, gui.MainWindow                                      *)

\* the texts the user may leave in the edit box
GuiInputs == { <<" ">>, <<" ", "x">> }

\* gui.ReviewItem as _load_review_data builds it from a joined line; the
\* dict comes from checker.load_change_out, whose keys are origin,
\* suggestion and raw
ReviewItem(label, sentence, data) ==
  [label |-> label, sentence |-> sentence,
   origin |-> Or(DictGet(data, label, "original_text"), sentence),
   suggestion |-> Or(DictGet(data, label, "checked_text"),
                     DictGet(data, label, "raw")),
   filename |-> parse_label(label)[2],
   error_type |-> DictGet(data, label, "error_type"),
   description |-> DictGet(data, label, "description")]

NoItem == ReviewItem(<<>>, <<>>, EmptyDict)

\* the worker of the window: none running, or AiWorker.run before
\* _prepare_inputs ("prepare"), before the suggestion file is opened
\* ("prepared") or in its loop ("write", idx lines processed)
NoRun == [pc |-> "none", mode |-> "none", idx |-> 0]

GuiClosed ==
  [open |-> FALSE, change_field |-> EmptyPath, out_field |-> EmptyPath,
   review_items |-> <<>>, failed_items |-> <<>>, review_index |-> 0,
   review_md_cache |-> EmptyDict,
   row |-> -1,          \* review_list.currentRow()
   timers |-> 0,        \* pending QTimer.singleShot(0, _advance_review)
   dialogs |-> <<>>,    \* the modal dialogs that wait, the newest last
   shown |-> -1,        \* the index the detail pane shows, and the record
   shown_item |-> NoItem,  \* whose texts it shows
   presented |-> FALSE, \* history: the last handler wrote the detail pane
   run |-> NoRun,       \* the worker of the window
   start_index |-> 0,
   decided |-> {},      \* history: the indices the user decided on
   missed |-> {},       \* history: the indices that failed the pre-check
   unwritten |-> {}]    \* history: the labels whose replacement failed

\* A modal dialog runs an event loop of its own: the handler that opened it
\* waits for the answer while queued timers and signals are served, and the
\* main window takes no input.  A dialog is held with what the handler
\* does once it is answered:
\*   question: QMessageBox.question of _load_review_data (line 1389),
\*             index is the stored progress_index;
\*   file:     QFileDialog.getOpenFileName of _resolve_md_path (line 1525)
\*             for the record at index, called from _show_review_item
\*             (after "show"; "load" when the second _show_review_item of
\*             _load_review_data is still to come), from _apply_and_next
\*             (after "apply", text is the edit box as it was read) or from
\*             _open_current_file (after "open");
\*   warning:  QMessageBox.warning of _apply_and_next (line 1462), after
\*             which _advance_review runs.
\* The dialogs after which the handler only returns (the other warnings,
\* the information box at the end of the review, the file dialog of
\* _choose_review_file) hold no state and are not kept.
Dialog(kind, index, after, text) ==
  [kind |-> kind, index |-> index, after |-> after, text |-> text]

\* the review_items _load_review_data builds for every pair of ledger
\* files, the suggestion file being of content v
LoadedItems ==
  [c \in {"changes.txt", "z.txt"}, o \in {"changes_out.txt", "z_out.txt"},
   v \in Sample..3 |->
     [k \in 1..Len(Loaded[c, o, v].filtered_lines) |->
        ReviewItem(Loaded[c, o, v].filtered_lines[k][1],
                   Loaded[c, o, v].filtered_lines[k][2],
                   Loaded[c, o, v].change_out_data)]]

\* MainWindow._resolve_md_path up to its file dialog (lines 1508-1523): the
\* cached path, or the one file below the posts directory that carries the
\* name; dialog is TRUE when the file dialog is opened instead.  No two
\* documents carry the same name, so the choice among several is not made.
gui_resolve_md_path(filename, cache) ==
  LET matches == {d \in DocIds : DocName(d) = filename}
  IN  IF filename \in DOMAIN cache
      THEN [path |-> cache[filename], cache |-> cache, dialog |-> FALSE]
      ELSE IF Cardinality(matches) = 1
      THEN [path |-> CHOOSE d \in matches : TRUE,
            cache |-> DictPut(cache, filename, CHOOSE d \in matches : TRUE),
            dialog |-> FALSE]
      ELSE [path |-> NoDoc, cache |-> cache, dialog |-> TRUE]

\* lines 1526-1532: the file dialog is answered with `picked` (NoDoc: it is
\* cancelled); the cache afterwards
picked_into_cache(cache, filename, picked) ==
  IF picked # NoDoc THEN DictPut(cache, filename, picked) ELSE cache

\* MainWindow._show_review_item from line 1413 on, md_path being what
\* _resolve_md_path returned: the pre-check, then the timer or the detail
\* pane
show_checked(g, ds, index, md_path, io) ==
  LET item == g.review_items[index + 1]
  IN  IF ~(md_path # NoDoc /\ SentenceInFile(ds[md_path], item.sentence, io))
      THEN [g EXCEPT
              !.failed_items =
                 IF \E k \in 1..Len(@) : @[k].label = item.label
                 THEN @ ELSE Append(@, item),
              !.timers = @ + 1,
              !.missed = @ \cup {index}]
      ELSE [g EXCEPT !.shown = index, !.shown_item = item,
                     !.presented = TRUE]

\* the mutant of show_review_item: the pre-check is left out, every record
\* is shown
show_review_item_M(g, ds, index, after, io) ==
  IF g.review_items = <<>> \/ index < 0 \/ index >= Len(g.review_items)
  THEN g
  ELSE [g EXCEPT !.review_index = index, !.shown = index,
                 !.shown_item = g.review_items[index + 1],
                 !.presented = TRUE]

\* MainWindow._show_review_item(index) on the documents ds: the window
\* afterwards, or the window with the file dialog open
show_review_item(g, ds, index, after, io) ==
  LET Resolved(res) ==
        IF res.dialog
        THEN [g EXCEPT !.review_index = index,
                       !.dialogs = Append(@, Dialog("file", index, after, <<>>))]
        ELSE show_checked([g EXCEPT !.review_index = index,
                                    !.review_md_cache = res.cache],
                          ds, index, res.path, io)
  IN  IF g.review_items = <<>> THEN g
      ELSE IF index < 0 \/ index >= Len(g.review_items) THEN g
      ELSE Resolved(gui_resolve_md_path(g.review_items[index + 1].filename,
                                        g.review_md_cache))

\* review_list.setCurrentRow(index): currentRowChanged is emitted, and
\* _show_review_item runs, when the row changes
set_current_row(g, ds, index, after, io) ==
  IF g.row = index THEN g
  ELSE show_review_item([g EXCEPT !.row = index], ds, index, after, io)

\* the mutant of advance_review: the index saved is the one of the record
\* left, not the one of the next record
advance_review_M(g, ds, ex, rep, io) ==
  IF g.review_index + 1 >= Len(g.review_items)
  THEN [gui |-> g,
        progress |-> clear_review_progress,
        exists |-> IF /\ g.change_field.name = "changes.txt"
                      /\ g.out_field.name = "changes_out.txt"
                   THEN Unlinked(ex, {"changes.txt", "changes_out.txt"})
                   ELSE ex,
        report |-> [by |-> "gui", entries |-> g.failed_items,
                    unwritten |-> g.unwritten]]
  ELSE [gui |-> set_current_row(g, ds, g.review_index + 1, "show", io),
        progress |-> save_review_progress(g.change_field, g.out_field,
                                          g.review_index),
        exists |-> ex,
        report |-> rep]

\* MainWindow._advance_review: the window, the cursor, the output directory
\* and the report afterwards
advance_review(g, ds, ex, rep, io) ==
  IF g.review_index + 1 >= Len(g.review_items)
  THEN [gui |-> g,
        progress |-> clear_review_progress,
        exists |-> IF /\ g.change_field.name = "changes.txt"
                      /\ g.out_field.name = "changes_out.txt"
                   THEN Unlinked(ex, {"changes.txt", "changes_out.txt"})
                   ELSE ex,
        report |-> [by |-> "gui", entries |-> g.failed_items,
                    unwritten |-> g.unwritten]]
  ELSE [gui |-> set_current_row(g, ds, g.review_index + 1, "show", io),
        progress |-> save_review_progress(g.change_field, g.out_field,
                                          g.review_index + 1),
        exists |-> ex,
        report |-> rep]

\* lines 1399-1400 of _load_review_data: setCurrentRow, then
\* _show_review_item on the index the window stands at by then; with the
\* file dialog of the first call open the second one waits for its answer
load_tail(g, ds, io) ==
  LET g1 == set_current_row(g, ds, g.review_index, "load", io)
  IN  IF Len(g1.dialogs) > Len(g.dialogs) THEN g1
      ELSE show_review_item(g1, ds, g1.review_index, "show", io)

\* the labels of the failed records the window holds
FailedLabels(g) == {g.failed_items[k].label : k \in 1..Len(g.failed_items)}

\* the effect of a handler that ends in _advance_review
GuiAdvanced(g, ds, io, cost) ==
  \E a \in {advance_review(g, ds, exists, report, io)} :
    /\ gui' = a.gui
    /\ progress' = a.progress
    /\ exists' = a.exists
    /\ report' = a.report
    /\ hist' = Turn([hist EXCEPT
                       !.lastEnd = NoEnd,
                       !.chain.marks = @ \cup FailedLabels(a.gui)],
                    "gui", cost)

\* the top of the stack of dialogs and the stack without it
TopDialog(g) == g.dialogs[Len(g.dialogs)]

PopDialog(g) == SubSeq(g.dialogs, 1, Len(g.dialogs) - 1)

\* the main window takes input: the window is open and no modal dialog
\* waits
GuiTakesInput ==
  /\ gui.open
  /\ gui.dialogs = <<>>

\* an input the window is given before a pending timer fires is a side step
Racing == IF gui.timers > 0 THEN 1 ELSE 0

\* a change of the two fields while a list is loaded is a side step
Refilled == IF gui.review_items # <<>> THEN 1 ELSE 0

\* history: the failed records of the window are marks of the chain
Marked(h, g) == [h EXCEPT !.chain.marks = @ \cup FailedLabels(g)]

\* gui.main: the window is opened, whatever checker.py does meanwhile
GuiOpen ==
  /\ ~gui.open
  /\ hist.sessions < hist.max.sessions
  /\ May("gui", Cost(0, <<>>))
  /\ gui' = [GuiClosed EXCEPT !.open = TRUE]
  /\ hist' = Turn([hist EXCEPT !.sessions = @ + 1], "gui", Cost(0, <<>>))
  /\ UNCHANGED << exists, docs, progress, cli, report, pf >>

\* the window is closed: its fields, its dialogs and its pending timers are
\* gone
GuiClose ==
  /\ gui.open
  /\ May("gui", Cost(0, <<>>))
  /\ gui' = GuiClosed
  /\ hist' = Turn([hist EXCEPT !.lastEnd = NoEnd], "gui", Cost(0, <<>>))
  /\ UNCHANGED << exists, docs, progress, cli, report, pf >>

\* MainWindow._populate_review_defaults: both fields are set
populate_review_defaults(g, change_path, out_path) ==
  [g EXCEPT !.change_field = change_path, !.out_field = out_path]

\* MainWindow._start_run, the start button: with no worker running a
\* worker is made for the mode chosen and started
GuiRunStart(mode) ==
  /\ GuiTakesInput
  /\ gui.run.pc = "none"
  /\ MayRegen
  /\ May("gui", Cost(0, <<>>))
  /\ gui' = [gui EXCEPT !.run = [pc |-> "prepare", mode |-> mode, idx |-> 0],
                        !.presented = FALSE]
  /\ hist' = Turn([hist EXCEPT !.regens = @ + 1], "gui", Cost(0, <<>>))
  /\ UNCHANGED << exists, docs, progress, cli, report, pf >>

\* AiWorker._prepare_inputs: the change file is written, with the text it
\* had; or the call raises and the failed signal ends the run (_on_failed)
GuiRunPrepare(io) ==
  /\ gui.open
  /\ gui.run.pc = "prepare"
  /\ May("gui", Cost(0, <<>>))
  /\ exists' = IF io = "ok"
               THEN Written(exists, RunNames(gui.run.mode)[1], Sample)
               ELSE exists
  /\ gui' = [gui EXCEPT !.run = IF io = "ok" THEN [@ EXCEPT !.pc = "prepared"]
                                ELSE NoRun,
                        !.presented = FALSE]
  /\ hist' = Turn(Touch(hist, IF io = "ok" THEN {RunNames(gui.run.mode)[1]}
                              ELSE {}),
                  "gui", Cost(0, <<>>))
  /\ UNCHANGED << docs, progress, cli, report, pf >>

\* AiWorker.run, lines 589-602: the run ends without a signal when stop was
\* asked for, and with the failed signal when the client cannot be made;
\* otherwise the suggestion file is opened for writing
GuiRunOpen(goes_on) ==
  /\ gui.open
  /\ gui.run.pc = "prepared"
  /\ May("gui", Cost(0, <<>>))
  /\ exists' = IF goes_on THEN Written(exists, RunNames(gui.run.mode)[2], 0)
               ELSE exists
  /\ gui' = [gui EXCEPT !.run = IF goes_on THEN [@ EXCEPT !.pc = "write"]
                                ELSE NoRun,
                        !.presented = FALSE]
  /\ hist' = Turn(Touch(hist, IF goes_on THEN {RunNames(gui.run.mode)[2]}
                              ELSE {}),
                  "gui", Cost(0, <<>>))
  /\ UNCHANGED << docs, progress, cli, report, pf >>

\* one pass of the loop of AiWorker.run that writes its line (line 614)
GuiRunLine ==
  /\ gui.open
  /\ gui.run.pc = "write"
  /\ gui.run.idx < RunTotal(gui.run.mode)
  /\ May("gui", Cost(0, <<>>))
  /\ exists' = LineWritten(exists, RunNames(gui.run.mode)[2])
  /\ gui' = [gui EXCEPT !.run.idx = @ + 1, !.presented = FALSE]
  /\ hist' = Turn(hist, "gui", Cost(0, <<>>))
  /\ UNCHANGED << docs, progress, cli, report, pf >>

\* the loop of AiWorker.run is left, after the last line or at a line when
\* stop was asked for: the finished signal runs _on_finished, which fills
\* the two fields of the review tab (line 1312), with a dialog open or not;
\* or an exception ends the run with the failed signal (_on_failed)
GuiRunEnd(signal) ==
  /\ gui.open
  /\ gui.run.pc = "write"
  /\ May("gui", Cost(0, <<>>))
  /\ gui' = IF signal = "finished"
            THEN populate_review_defaults(
                   [gui EXCEPT !.run = NoRun, !.presented = FALSE],
                   AbsPath(RunNames(gui.run.mode)[1]),
                   AbsPath(RunNames(gui.run.mode)[2]))
            ELSE [gui EXCEPT !.run = NoRun, !.presented = FALSE]
  /\ hist' = Turn(hist, "gui", Cost(0, <<>>))
  /\ UNCHANGED << exists, docs, progress, cli, report, pf >>

\* MainWindow._clear_cache, the button of the window: the cache is cleared
\* and the number of entries removed is shown in an information box, after
\* which the handler only returns.  Over an empty directory the call
\* changes nothing.
GuiClearCache(kept) ==
  /\ GuiTakesInput
  /\ MayRegen
  /\ DOMAIN exists # {}
  /\ kept \subseteq DOMAIN exists
  /\ Cardinality(kept) <= MaxKept
  /\ May("gui", Cost(0, <<>>))
  /\ exists' = clear_output_cache(exists, kept).exists
  /\ gui' = [gui EXCEPT !.presented = FALSE]
  /\ hist' = Turn(Touch([hist EXCEPT !.regens = @ + 1], DOMAIN exists \ kept),
                  "gui", Cost(0, <<>>))
  /\ UNCHANGED << docs, progress, cli, report, pf >>

\* MainWindow._choose_review_file, or the text typed into the field: one of
\* the two fields is set
GuiChooseFile(field, path) ==
  /\ gui.open
  /\ gui.dialogs = <<>>
  /\ gui[field] # path
  /\ May("gui", Cost(Refilled, <<>>))
  /\ gui' = [gui EXCEPT ![field] = path, !.presented = FALSE]
  /\ hist' = Turn(hist, "gui", Cost(Refilled, <<>>))
  /\ UNCHANGED << exists, docs, progress, cli, report, pf >>

\* lines 1399-1400 and the history of the session that starts: start is the
\* index the window stands at when the list is shown
LoadFinished(g, io, cost) ==
  /\ gui' = load_tail([g EXCEPT !.start_index = g.review_index], docs, io)
  /\ hist' = Turn(Marked([hist EXCEPT
                            !.lastEnd = NoEnd,
                            !.chain = ChainAtStart(hist.chain, g.change_field,
                                                   g.out_field,
                                                   g.review_index)],
                         gui'),
                  "gui", cost)

\* MainWindow._load_review_data, the load button: the two fields are read,
\* the files joined and the list filled; with a cursor stored for the pair
\* the resume question is asked, else the first record is shown.  Each of
\* the four warnings leaves the window as it is.  The detail pane is not
\* written by the load itself: it shows what it showed until
\* _show_review_item presents a record of the new list.
GuiLoad(io) ==
  /\ GuiTakesInput
  /\ May("gui", Cost(Racing, <<io>>))
  /\ gui.change_field # EmptyPath
  /\ gui.out_field # EmptyPath
  /\ gui.change_field.name \in DOMAIN exists
  /\ gui.out_field.name \in DOMAIN exists
  /\ DOMAIN Loaded[gui.change_field.name, gui.out_field.name,
                   exists[gui.out_field.name]].change_out_data
       # {}
  /\ LoadedItems[gui.change_field.name, gui.out_field.name,
                 exists[gui.out_field.name]] # <<>>
  /\ \E items \in {LoadedItems[gui.change_field.name, gui.out_field.name,
                               exists[gui.out_field.name]]} :
     \E t \in {load_review_progress(progress)} :
     \E g \in {[gui EXCEPT
                  !.review_items = items,
                  !.failed_items = <<>>,
                  !.row = -1,
                  !.review_md_cache = EmptyDict,
                  !.review_index = 0,
                  !.presented = FALSE,
                  !.start_index = 0,
                  !.decided = {},
                  !.missed = {},
                  !.unwritten = {}]} :
       IF /\ t[1] = Resolve(gui.change_field)
          /\ t[2] = Resolve(gui.out_field)
          /\ 0 <= t[3] /\ t[3] < Len(items)
       THEN /\ gui' = [g EXCEPT
                         !.dialogs = Append(@, Dialog("question", t[3],
                                                      "load", <<>>))]
            /\ hist' = Turn([hist EXCEPT !.lastEnd = NoEnd], "gui", Cost(Racing, <<io>>))
       ELSE LoadFinished(g, io, Cost(Racing, <<io>>))
  /\ report' = NoReport
  /\ UNCHANGED << exists, docs, progress, cli, pf >>

\* lines 1394-1400: the resume question is answered
GuiAnswerResume(resume, io) ==
  /\ gui.open
  /\ gui.dialogs # <<>>
  /\ TopDialog(gui).kind = "question"
  /\ May("gui", Cost(0, <<io>>))
  /\ progress' = IF resume = "Yes" THEN progress ELSE clear_review_progress
  /\ LoadFinished([gui EXCEPT
                     !.dialogs = PopDialog(gui),
                     !.presented = FALSE,
                     !.review_index =
                        IF resume = "Yes" THEN TopDialog(gui).index ELSE @],
                  io, Cost(0, <<io>>))
  /\ UNCHANGED << exists, docs, cli, report, pf >>

\* the row of the list the user selects: currentRowChanged is connected to
\* _show_review_item (line 1046)
GuiSelectRow(row, io) ==
  /\ GuiTakesInput
  /\ May("gui", Cost(1, <<io>>))
  /\ row \in 0..(Len(gui.review_items) - 1)
  /\ row # gui.row
  /\ gui' = show_review_item([gui EXCEPT !.row = row, !.presented = FALSE],
                             docs, row, "show", io)
  /\ hist' = Turn(Marked(hist, gui'), "gui", Cost(1, <<io>>))
  /\ UNCHANGED << exists, docs, progress, cli, report, pf >>

\* MainWindow._open_current_file: the path is resolved, which fills the
\* cache, and handed to the desktop
GuiOpenFile ==
  /\ GuiTakesInput
  /\ May("gui", Cost(1, <<>>))
  /\ gui.review_items # <<>>
  /\ \E res \in {gui_resolve_md_path(
                   gui.review_items[gui.review_index + 1].filename,
                   gui.review_md_cache)} :
       /\ res.dialog \/ res.cache # gui.review_md_cache
       /\ gui' = IF res.dialog
                 THEN [gui EXCEPT
                         !.presented = FALSE,
                         !.dialogs = Append(@, Dialog("file", gui.review_index,
                                                      "open", <<>>))]
                 ELSE [gui EXCEPT !.review_md_cache = res.cache,
                                  !.presented = FALSE]
  /\ hist' = Turn(hist, "gui", Cost(1, <<>>))
  /\ UNCHANGED << exists, docs, progress, cli, report, pf >>

\* MainWindow._skip_item
GuiSkip(io) ==
  /\ GuiTakesInput
  /\ May("gui", Cost(Racing, <<io>>))
  /\ gui.review_items # <<>>
  /\ GuiAdvanced([gui EXCEPT !.decided = @ \cup {gui.review_index},
                             !.presented = FALSE],
                 docs, io, Cost(Racing, <<io>>))
  /\ UNCHANGED << docs, cli, pf >>

\* lines 1461-1468 of _apply_and_next, md_path being resolved: the sentence
\* of the record at index is replaced; after a replacement that failed the
\* warning waits before _advance_review runs
ApplyWritten(g, index, md_path, new_text, io, io2, cost) ==
  \E item \in {g.review_items[index + 1]} :
  \E r \in {replace_sentence_in_file(docs[md_path], item.sentence,
                                     new_text, io)} :
  \E ds \in {[docs EXCEPT ![md_path] = r.bytes]} :
    /\ docs' = ds
    /\ IF r.ok
       THEN GuiAdvanced([g EXCEPT !.decided = @ \cup {index}], ds, io2, cost)
       ELSE /\ gui' = [g EXCEPT
                         !.decided = @ \cup {index},
                         !.unwritten = @ \cup {item.label},
                         !.dialogs = Append(@, Dialog("warning", index,
                                                      "advance", <<>>))]
            /\ hist' = Turn(hist, "gui", cost)
            /\ UNCHANGED << exists, progress, report >>

\* MainWindow._apply_and_next with new_text in the edit box
GuiApply(new_text, io, io2) ==
  /\ GuiTakesInput
  /\ May("gui", Cost(Racing, <<io, io2>>))
  /\ gui.review_items # <<>>
  /\ \E item \in {gui.review_items[gui.review_index + 1]} :
     \E stripped \in {Strip(new_text)} :
     \E res \in {gui_resolve_md_path(item.filename, gui.review_md_cache)} :
       IF stripped = <<>>
       THEN /\ GuiAdvanced([gui EXCEPT !.decided = @ \cup {gui.review_index},
                                       !.presented = FALSE],
                           docs, io2, Cost(Racing, <<io, io2>>))
            /\ UNCHANGED docs
       ELSE IF res.dialog
       THEN /\ gui' = [gui EXCEPT
                         !.presented = FALSE,
                         !.dialogs = Append(@, Dialog("file", gui.review_index,
                                                      "apply", stripped))]
            /\ hist' = Turn(hist, "gui", Cost(Racing, <<io, io2>>))
            /\ UNCHANGED << exists, docs, progress, report >>
       ELSE ApplyWritten([gui EXCEPT !.review_md_cache = res.cache,
                                     !.presented = FALSE],
                         gui.review_index, res.path, stripped, io, io2,
                         Cost(Racing, <<io, io2>>))
  /\ UNCHANGED << cli, pf >>

\* the file dialog of _resolve_md_path is answered (picked: the file named,
\* NoDoc when it is cancelled) and the handler that waited goes on
GuiAnswerFile(picked, io, io2) ==
  /\ gui.open
  /\ gui.dialogs # <<>>
  /\ TopDialog(gui).kind = "file"
  /\ May("gui", Cost(0, <<io, io2>>))
  /\ \E d \in {TopDialog(gui)} :
     \E g \in {[gui EXCEPT
                  !.dialogs = PopDialog(gui),
                  !.presented = FALSE,
                  !.review_md_cache =
                     picked_into_cache(@, gui.review_items[d.index + 1].filename,
                                       picked)]} :
       CASE d.after = "show" ->
              /\ gui' = show_checked(g, docs, d.index, picked, io2)
              /\ hist' = Turn(Marked(hist, gui'), "gui", Cost(0, <<io, io2>>))
              /\ UNCHANGED << exists, docs, progress, report >>
         [] d.after = "load" ->
              /\ gui' = show_review_item(
                          show_checked(g, docs, d.index, picked, io2), docs,
                          show_checked(g, docs, d.index, picked, io2).review_index,
                          "show", io2)
              /\ hist' = Turn(Marked(hist, gui'), "gui", Cost(0, <<io, io2>>))
              /\ UNCHANGED << exists, docs, progress, report >>
         [] d.after = "open" ->
              /\ gui' = g
              /\ hist' = Turn(hist, "gui", Cost(0, <<io, io2>>))
              /\ UNCHANGED << exists, docs, progress, report >>
         [] d.after = "apply" ->
              IF picked = NoDoc
              THEN /\ gui' = g
                   /\ hist' = Turn(hist, "gui", Cost(0, <<io, io2>>))
                   /\ UNCHANGED << exists, docs, progress, report >>
              ELSE ApplyWritten(g, d.index, picked, d.text, io, io2, Cost(0, <<io, io2>>))
  /\ UNCHANGED << cli, pf >>

\* the warning of _apply_and_next is closed: _advance_review runs
GuiAnswerWarning(io) ==
  /\ gui.open
  /\ gui.dialogs # <<>>
  /\ TopDialog(gui).kind = "warning"
  /\ May("gui", Cost(0, <<io>>))
  /\ GuiAdvanced([gui EXCEPT !.dialogs = PopDialog(gui), !.presented = FALSE],
                 docs, io, Cost(0, <<io>>))
  /\ UNCHANGED << docs, cli, pf >>

\* a pending QTimer.singleShot(0, self._advance_review) fires, in the event
\* loop of the window or in the one of a dialog
GuiTimer(io) ==
  /\ gui.open
  /\ gui.timers > 0
  /\ May("gui", Cost(0, <<io>>))
  /\ GuiAdvanced([gui EXCEPT !.timers = @ - 1, !.presented = FALSE],
                 docs, io, Cost(0, <<io>>))
  /\ UNCHANGED << docs, cli, pf >>

----------------------------------------------------------------------------
(* The review specification                                                *)

\* the bounds of the behaviours of the review: the ledger files are the
\* ones of one complete extraction run and stay as they are
ReviewBounds ==
  [side |-> MaxSideSteps, faults |-> MaxFaults, overlap |-> MaxOverlapSteps,
   sessions |-> MaxSessions, regens |-> 0]

\* the bounds of the behaviours that regenerate the ledger files: the user
\* takes no side step and no file operation of the review fails
RegenBounds ==
  [side |-> 0, faults |-> 0, overlap |-> MaxOverlapSteps,
   sessions |-> MaxSessions, regens |-> MaxRegens]

InitBounded(names, bounds) ==
  /\ exists = [n \in names |-> Sample]
  /\ docs = [d \in DocIds |-> IF d = "d" THEN <<"a", "b">> ELSE <<"b">>]
  /\ progress = NoProgress
  /\ cli = CliIdle
  /\ gui = GuiClosed
  /\ report = NoReport
  /\ hist = [lastEnd |-> NoEnd,
             chain |-> NoChain,
             faults |-> 0,
             side |-> 0,
             overlap |-> 0,
             sessions |-> 0,
             regens |-> 0,
             touched |-> {},
             max |-> bounds]
  /\ pf = [op |-> "none"]

\* the output directory holds the ledger files of a run over the changed
\* files and of a run over one document
Init ==
  InitBounded({"changes.txt", "changes_out.txt", "z.txt", "z_out.txt"},
              ReviewBounds)

\* the output directory holds the ledger files of a run over one document
InitRegen == InitBounded({"z.txt", "z_out.txt"}, RegenBounds)

\* the file the user names when a document is not found (NoDoc: none)
PickedFiles == {"d", NoDoc}

ReadOutcomes == {"ok", "read_error"}

\* the texts the user may give each field, picked in the file dialog or
\* typed
GuiPairs ==
  { << AbsPath("z.txt"), AbsPath("z_out.txt") >>,
    << AbsPath("changes.txt"), AbsPath("changes_out.txt") >>,
    << RelPath("changes.txt"), RelPath("changes_out.txt") >> }

Next ==
  \/ CliList
  \/ \E ci \in {MenuNone, 0, 1} : CliChooseChange(ci)
  \/ \E oi \in {MenuNone, 0, 1} : CliChooseOut(oi)
  \/ \E custom \in PickedFiles, io \in ReadOutcomes : CliCheck(NoDoc, custom, io)
  \/ \E t \in CliInputs, io \in IoOutcomes : CliDecide(t, io)
  \/ CliSave
  \/ CliFinish
  \/ CliKill
  \/ \E d \in DocIds, b \in ExternalContents : ExternalEdit(d, b)
  \/ GuiOpen
  \/ GuiClose
  \/ \E pr \in GuiPairs : GuiChooseFile("change_field", pr[1])
  \/ \E pr \in GuiPairs : GuiChooseFile("out_field", pr[2])
  \/ \E io \in ReadOutcomes : GuiLoad(io)
  \/ \E resume \in {"Yes", "No"}, io \in ReadOutcomes : GuiAnswerResume(resume, io)
  \/ \E row \in 0..2, io \in ReadOutcomes : GuiSelectRow(row, io)
  \/ GuiOpenFile
  \/ \E io \in ReadOutcomes : GuiSkip(io)
  \/ \E t \in GuiInputs, io \in IoOutcomes, io2 \in ReadOutcomes :
       GuiApply(t, io, io2)
  \/ \E p \in PickedFiles, io \in IoOutcomes, io2 \in ReadOutcomes :
       GuiAnswerFile(p, io, io2)
  \/ \E io \in ReadOutcomes : GuiAnswerWarning(io)
  \/ \E io \in ReadOutcomes : GuiTimer(io)

Spec == Init /\ [][Next]_vars

----------------------------------------------------------------------------
(* Properties of the review specification                                  *)

\* the behaviour so far is one of front ends used one after the other
\* (section "Concurrency" of the specification: no two workers on the same
\* document set), the user of the window filling the two fields before the
\* load, pressing load, apply and skip with no timer pending and answering
\* the dialogs; the timers and the dialogs of the window are part of it
Plain == hist.side = 0 /\ hist.overlap = 0

\* the window waits for the user: no dialog is open and no timer is pending,
\* so that the report of a completed review is the last one of that review
Settled == gui.open => (gui.timers = 0 /\ gui.dialogs = <<>>)

\* the labels of the entries of a report: the CLI prints pairs of lines that
\* start with the label, the GUI logs the label of each failed item
ReportHasLabel(rep, l) ==
  \E k \in 1..Len(rep.entries) :
    IF rep.by = "cli" THEN StartsWith(rep.entries[k][1], l)
    ELSE rep.entries[k].label = l

C2_CursorInvariant ==
  Plain =>
  /\ cli.pc = "input" =>
       StartDecision(progress, cli.change_path, cli.change_out_path,
                     Len(cli.filtered_lines)).start = cli.idx
  /\ (cli.pc = "loop" /\ cli.idx > cli.start_index) =>
       progress = save_review_progress(cli.change_path, cli.change_out_path,
                                       cli.idx)
  /\ (cli.pc = "idle" /\ hist.lastEnd.kind = "quit") =>
       progress = save_review_progress(hist.lastEnd.change, hist.lastEnd.out,
                                       hist.lastEnd.k)
  /\ (cli.pc = "idle" /\ hist.lastEnd.kind = "kill") =>
       LET restart == StartDecision(progress, hist.lastEnd.change,
                                    hist.lastEnd.out, hist.lastEnd.n).start
           done    == hist.lastEnd.k
                      + (IF hist.lastEnd.pc = "save" THEN 1 ELSE 0)
       IN  restart <= hist.lastEnd.k /\ done - restart <= 1

\* C3: no failed record is dropped.  Every record marked failed in any of
\* the sessions over a file pair since the review of that pair last started
\* at index 0 is in the report of the session that reaches index N, the
\* front ends being used one after the other (Plain) and the window having
\* no timer pending and no dialog open (Settled).
C3_NoFailedRecordDropped ==
  (Plain /\ Settled /\ report.by # "none") =>
    \A l \in hist.chain.marks : ReportHasLabel(report, l)

\* C4: no record is passed over without a decision.  In both front ends
\* every record between the start index and the current index was decided
\* on by the user or failed the pre-check, the front ends being used one
\* after the other and the user of the window pressing load, apply and skip
\* only, with no timer pending (Plain).
C4_NoRecordPassedOver ==
  Plain =>
  /\ cli.pc # "idle" =>
       \A j \in cli.start_index..(cli.idx - 1) : j \in cli.decided \cup cli.missed
  /\ (gui.open /\ gui.review_items # <<>>) =>
       \A j \in gui.start_index..(gui.review_index - 1) :
         j \in gui.decided \cup gui.missed

\* C6: a record whose accepted edit could not be written is in the list of
\* failed records the session reports at its end, in both front ends, the
\* front ends being used one after the other (Plain) and the window having
\* no timer pending and no dialog open (Settled).
C6_WriteFailureMarked ==
  (Plain /\ Settled /\ report.by # "none") =>
    \A l \in report.unwritten : ReportHasLabel(report, l)

\* the record at index j of the window is in the document the window
\* resolved for it, the documents being ds
GuiItemPresent(g, ds, j) ==
  LET item == g.review_items[j + 1]
  IN  /\ item.filename \in DOMAIN g.review_md_cache
      /\ Contains(ReadText(ds[g.review_md_cache[item.filename]]), item.sentence)

\* a pending timer fires
GuiTimerStep == \E io \in ReadOutcomes : GuiTimer(io)

CliSkipStep == cli.pc = "input" /\ cli'.pc = "loop"

\* a skip in the GUI: the skip button, or apply with an empty edit box
GuiSkipStep ==
  /\ GuiTakesInput /\ gui.review_items # <<>>
  /\ gui'.open
  /\ \E io \in ReadOutcomes :
       \/ GuiSkip(io)
       \/ GuiApply(<<" ">>, "ok", io)

GuiLoadStep ==
  /\ gui.open /\ gui'.open /\ gui' # gui
  /\ report.by = "gui" /\ report' = NoReport

----------------------------------------------------------------------------
(* The join applied on its own                                             *)

\* the number of lines of the change file and of the suggestion file
MaxChangeLines == 3

MaxOutLines == 2

\* the lines the two files are made of: two records, a second line for the
\* label of the first with leading white space, a line whose label differs
\* from the first in its digits only, and a label without a text
JoinLines ==
  { Tag(1, <<"d">>) \o Txt_a,
    Tag(2, <<"d">>) \o Txt_b,
    <<" ">> \o Tag(1, <<"d">>) \o Txt_c,
    <<"@", "@", "S", "1", "|", "d", "@", "@", " ", "a">>,
    Tag(2, <<"d">>) }

\* the sequences of at most n elements of S
RECURSIVE SeqsUpTo(_, _)
SeqsUpTo(S, n) ==
  IF n = 0 THEN { <<>> }
  ELSE LET shorter == SeqsUpTo(S, n - 1)
       IN  shorter \cup {Append(q, x) : q \in shorter, x \in S}

InitJoin ==
  /\ exists = NoFiles
  /\ docs = [d \in DocIds |-> <<>>]
  /\ progress = NoProgress
  /\ cli = CliIdle
  /\ gui = GuiClosed
  /\ report = NoReport
  /\ hist = [lastEnd |-> NoEnd, chain |-> NoChain, faults |-> 0]
  /\ \E c \in SeqsUpTo(JoinLines, MaxChangeLines),
        o \in SeqsUpTo(JoinLines, MaxOutLines) :
       pf = [op |-> "join", done |-> FALSE, change |-> c, out |-> o,
             change_out_data |-> EmptyDict, filtered_lines |-> <<>>]

\* mode_review_changes, lines 505-512: the two loaders, one after the other
JoinFiles ==
  /\ pf.op = "join"
  /\ ~pf.done
  /\ \E data \in {load_change_out(pf.out)} :
       pf' = [pf EXCEPT
                !.done = TRUE,
                !.change_out_data = data,
                !.filtered_lines =
                   load_filtered_change_lines(pf.change, DOMAIN data)]
  /\ UNCHANGED << exists, docs, progress, cli, gui, report, hist >>

SpecJoin == InitJoin /\ [][JoinFiles]_vars

\* the records of a ledger file: the label and the text of every line that
\* carries a label, in file order
LedgerRecords(lines) ==
  SelectSeq([i \in 1..Len(lines) |-> split_label(Strip(lines[i]))],
            LAMBDA r : r[1] # <<>>)

\* C10: join correctness.  The records offered for review are exactly the
\* records of the change file whose label is, as a string, the label of some
\* record of the suggestion file, in the order of the change file; no label
\* of the result is missing from either file.
C10_JoinCorrect ==
  (pf.op = "join" /\ pf.done) =>
    LET change_records == LedgerRecords(pf.change)
        out_records    == LedgerRecords(pf.out)
        out_labels     == {out_records[k][1] : k \in 1..Len(out_records)}
    IN  /\ pf.filtered_lines
             = SelectSeq(change_records, LAMBDA r : r[1] \in out_labels)
        /\ DOMAIN pf.change_out_data = out_labels
        /\ \A k \in 1..Len(pf.filtered_lines) :
             /\ pf.filtered_lines[k][1] \in out_labels
             /\ \E j \in 1..Len(change_records) :
                  change_records[j] = pf.filtered_lines[k]

\* a join where the two files do not line up: the suggestion file has a
\* record the change file lacks, the change file a record without
\* suggestion, and the record joined stands at different positions
C10_Witness ==
  /\ pf.op = "join" /\ pf.done
  /\ Len(pf.filtered_lines) = 1
  /\ Len(LedgerRecords(pf.change)) = 2
  /\ Len(LedgerRecords(pf.out)) = 2
  /\ LedgerRecords(pf.out)[2][1] # LedgerRecords(pf.out)[1][1]
  /\ LedgerRecords(pf.change)[1][1] # LedgerRecords(pf.out)[2][1]
  /\ LedgerRecords(pf.change)[2] = pf.filtered_lines[1]
  /\ LedgerRecords(pf.out)[1][1] = pf.filtered_lines[1][1]

----------------------------------------------------------------------------
(* replace_sentence_in_file applied on its own                             *)

\* the length of the document
MaxDocLen == 3

\* the bytes of the document, the sentence looked for and the text typed
DocChars == {"a", "b", "\r", "\n"}

OldSentences == { <<"a">>, <<"a", "b">> }

NewSentences == { <<"x">>, <<"a", "a">>, <<"x", Unencodable>> }

InitReplace ==
  /\ exists = NoFiles
  /\ docs = [d \in DocIds |-> <<>>]
  /\ progress = NoProgress
  /\ cli = CliIdle
  /\ gui = GuiClosed
  /\ report = NoReport
  /\ hist = [lastEnd |-> NoEnd, chain |-> NoChain, faults |-> 0]
  /\ \E b \in SeqsUpTo(DocChars, MaxDocLen), o \in OldSentences,
        n \in NewSentences, io \in IoOutcomes :
       pf = [op |-> "replace", done |-> FALSE, bytes |-> b, old_sentence |-> o,
             new_sentence |-> n, io |-> io, ok |-> FALSE, after |-> b]

\* one call of replace_sentence_in_file on the document
ReplaceInFile ==
  /\ pf.op = "replace"
  /\ ~pf.done
  /\ \E r \in {replace_sentence_in_file(pf.bytes, pf.old_sentence,
                                        pf.new_sentence, pf.io)} :
       pf' = [pf EXCEPT !.done = TRUE, !.ok = r.ok, !.after = r.bytes]
  /\ UNCHANGED << exists, docs, progress, cli, gui, report, hist >>

SpecReplace == InitReplace /\ [][ReplaceInFile]_vars

\* C7: replace_sentence_in_file is all-or-nothing.  Either it returns True
\* and the document is the previous document with the first occurrence of
\* the old sentence replaced and every other character unchanged, or it
\* returns False and the document is unchanged.
C7_ReplaceAllOrNothing ==
  (pf.op = "replace" /\ pf.done) =>
    IF pf.ok
    THEN /\ Contains(pf.bytes, pf.old_sentence)
         /\ pf.after = ReplaceFirst(pf.bytes, pf.old_sentence, pf.new_sentence)
    ELSE pf.after = pf.bytes

----------------------------------------------------------------------------
(* The ledger writers followed by the ledger parser                        *)

\* the number of records written and the length of the text of a record
MaxRecords == 2

MaxContentLen == 2

\* the characters of the text of a record: none of them belongs to the
\* sentinel
ContentChars == {"a", " ", "\n"}

LedgerWriters == {"write_to_txt", "save_to_file"}

\* '\n'.join(lines) of a list of lines
RECURSIVE JoinNewline(_)
JoinNewline(lines) ==
  IF lines = <<>> THEN <<>>
  ELSE IF Len(lines) = 1 THEN lines[1]
  ELSE lines[1] \o <<"\n">> \o JoinNewline(Tail(lines))

\* os.path.basename: the text after the last separator
basename(path) ==
  LET seps == {i \in 1..Len(path) : path[i] = "/"}
  IN  IF seps = {} THEN path ELSE SubSeq(path, Max(seps) + 1, Len(path))

\* checker_process_markdown.write_to_txt: the text written to the file; the
\* lines are tagged with the base name of the source path
write_to_txt(sentences, source_file_path) ==
  IF sentences = <<>> THEN <<>>
  ELSE LET source_name == basename(source_file_path)
       IN  JoinNewline([idx \in 1..Len(sentences) |->
                          Tag(idx, source_name) \o sentences[idx]])
           \o <<"\n">>

\* GitDiffExtractor.save_to_file with include_metadata: one write per change
RECURSIVE save_to_file_from(_, _)
save_to_file_from(changes, idx) ==
  IF idx > Len(changes) THEN <<>>
  ELSE Tag(idx, changes[idx].file) \o changes[idx].content \o <<"\n">>
       \o save_to_file_from(changes, idx + 1)

save_to_file(changes) == save_to_file_from(changes, 1)

\* `for raw_line in f` on a file opened in text mode: the lines of the text,
\* each with its line end
RECURSIVE IterLinesFrom(_, _)
IterLinesFrom(text, cur) ==
  IF text = <<>> THEN (IF cur = <<>> THEN <<>> ELSE << cur >>)
  ELSE IF Head(text) = "\n"
       THEN << Append(cur, "\n") >> \o IterLinesFrom(Tail(text), <<>>)
       ELSE IterLinesFrom(Tail(text), Append(cur, Head(text)))

IterLines(bytes) == IterLinesFrom(ReadText(bytes), <<>>)

InitRoundTrip ==
  /\ exists = NoFiles
  /\ docs = [d \in DocIds |-> <<>>]
  /\ progress = NoProgress
  /\ cli = CliIdle
  /\ gui = GuiClosed
  /\ report = NoReport
  /\ hist = [lastEnd |-> NoEnd, chain |-> NoChain, faults |-> 0]
  /\ \E w \in LedgerWriters,
        c \in SeqsUpTo(SeqsUpTo(ContentChars, MaxContentLen), MaxRecords) :
       pf = [op |-> "roundtrip", done |-> FALSE, writer |-> w,
             source |-> DocName("d"), contents |-> c, file |-> <<>>,
             records |-> <<>>]

\* a ledger writer (checker_process_markdown.main, GitDiffExtractor) followed
\* by the loaders of mode_review_changes on the file written
WriteAndParse ==
  /\ pf.op = "roundtrip"
  /\ ~pf.done
  /\ \E text \in {IF pf.writer = "write_to_txt"
                  THEN write_to_txt(pf.contents, pf.source)
                  ELSE save_to_file([i \in 1..Len(pf.contents) |->
                                       [file |-> pf.source,
                                        content |-> pf.contents[i]]])} :
       \E lines \in {IterLines(text)} :
         pf' = [pf EXCEPT
                  !.done = TRUE,
                  !.file = text,
                  !.records =
                     load_filtered_change_lines(
                        lines, DOMAIN load_change_out(lines))]
  /\ UNCHANGED << exists, docs, progress, cli, gui, report, hist >>

SpecRoundTrip == InitRoundTrip /\ [][WriteAndParse]_vars

\* C11: label round trip.  Parsing the file a ledger writer wrote yields, for
\* every record written, in order, one record whose label is the tag written
\* and whose text is exactly the text written, an empty text and a text with
\* leading or trailing white space included.
C11_RoundTrip ==
  (pf.op = "roundtrip" /\ pf.done) =>
    pf.records = [i \in 1..Len(pf.contents) |->
                    << Tag(i, pf.source), pf.contents[i] >>]

----------------------------------------------------------------------------
(* The payload of a suggestion line, from the file to the review step      *)

\* the length of a payload drawn character by character
MaxPayloadLen == 3

\* the names of the fields of checker_ai.CheckResult
Key_original_text == <<"o", "r", "i", "g", "i", "n", "a", "l", "_", "t", "e", "x", "t">>

Key_error_type == <<"e", "r", "r", "o", "r", "_", "t", "y", "p", "e">>

Key_description == <<"d", "e", "s", "c", "r", "i", "p", "t", "i", "o", "n">>

Key_checked_text == <<"c", "h", "e", "c", "k", "e", "d", "_", "t", "e", "x", "t">>

Quote == "\""

\* a JSON string whose characters need no escape
JsonString(s) == <<Quote>> \o s \o <<Quote>>

\* CheckResult.model_dump_json(exclude_none=True), the payload
\* get_ai_response returns: the four fields in declaration order, compact
model_dump_json(r) ==
  <<"{">> \o JsonString(Key_original_text) \o <<":">> \o JsonString(r.original_text)
  \o <<",">> \o JsonString(Key_error_type) \o <<":">> \o JsonString(r.error_type)
  \o <<",">> \o JsonString(Key_description) \o <<":">> \o JsonString(r.description)
  \o <<",">> \o JsonString(Key_checked_text) \o <<":">> \o JsonString(r.checked_text)
  \o <<"}">>

\* the results the model may be given to dump: a correction of the sentence
\* "a" or "b", with or without classification
CheckResults ==
  [original_text : {Txt_a, Txt_b}, error_type : {<<>>, <<"t">>},
   description : {<<>>, <<"e">>}, checked_text : {Txt_a, Txt_x}]

NoCheckResult ==
  [original_text |-> <<>>, error_type |-> <<>>, description |-> <<>>,
   checked_text |-> <<>>]

\* the characters of a payload that is not the dump of a CheckResult
PayloadChars == {"x", " ", "[", "]", "{", "}", Quote}

\* what mode_review_changes prints as original and as suggestion for a
\* record (lines 536-538 and 567-568)
cli_view(label, sentence, data) ==
  [origin |-> Or(DictGet(data, label, "origin"), sentence),
   suggestion |-> Or(DictGet(data, label, "suggestion"),
                     DictGet(data, label, "raw"))]

NoView == [origin |-> <<>>, suggestion |-> <<>>]

\* json.loads as far as parse_ai_json and checker_ai.main depend on it:
\* whether the text is a JSON object, and its members.  The texts drawn hold
\* no digit, no escape and no literal but null, and every member of an
\* object they spell is a string or null.
JsonControl == {"\t", "\n", "\r"}

\* None, the value json.loads gives for null: a value that is no text
JsonNull == << "null" >>

JsonNullText == <<"n", "u", "l", "l">>

NotJsonObject == [object |-> FALSE, members |-> EmptyDict]

JsonSkip(t, i) == i + RunLen(t, i, WS)

RECURSIVE json_members(_, _, _)
json_members(t, i, acc) ==
  IF i > Len(t) \/ t[i] # Quote THEN NotJsonObject
  ELSE LET ke == i + 1 + RunLenNot(t, i + 1, Quote)
           c  == JsonSkip(t, ke + 1)
           vs == JsonSkip(t, c + 1)
           null == vs + 3 <= Len(t) /\ SubSeq(t, vs, vs + 3) = JsonNullText
           ve == IF null THEN vs + 3
                 ELSE vs + 1 + RunLenNot(t, vs + 1, Quote)
           nx == JsonSkip(t, ve + 1)
       IN  IF \/ ke > Len(t) \/ c > Len(t) \/ t[c] # ":"
              \/ vs > Len(t) \/ (~null /\ t[vs] # Quote)
              \/ ve > Len(t) \/ nx > Len(t)
              \/ \E k \in (i + 1)..(ke - 1) : t[k] \in JsonControl
              \/ ~null /\ \E k \in (vs + 1)..(ve - 1) : t[k] \in JsonControl
           THEN NotJsonObject
           ELSE LET acc2 == DictPut(acc, SubSeq(t, i + 1, ke - 1),
                                    IF null THEN JsonNull
                                    ELSE SubSeq(t, vs + 1, ve - 1))
                IN  IF t[nx] = "}"
                    THEN IF JsonSkip(t, nx + 1) = Len(t) + 1
                         THEN [object |-> TRUE, members |-> acc2]
                         ELSE NotJsonObject
                    ELSE IF t[nx] = ","
                    THEN json_members(t, JsonSkip(t, nx + 1), acc2)
                    ELSE NotJsonObject

json_loads(text) ==
  LET i == JsonSkip(text, 1)
      j == JsonSkip(text, i + 1)
  IN  IF i > Len(text) \/ text[i] # "{" THEN NotJsonObject
      ELSE IF j <= Len(text) /\ text[j] = "}"
      THEN IF JsonSkip(text, j + 1) = Len(text) + 1
           THEN [object |-> TRUE, members |-> EmptyDict]
           ELSE NotJsonObject
      ELSE json_members(text, j, EmptyDict)

\* json.loads returns a value that is no object: of the texts drawn, an
\* empty array, a string or null, white space around it
json_loads_other(text) ==
  LET i == JsonSkip(text, 1)
      t == IF i > Len(text) THEN <<>> ELSE Strip(SubSeq(text, i, Len(text)))
      n == Len(t)
  IN  \/ t = JsonNullText
      \/ /\ n >= 2 /\ t[1] = "[" /\ t[n] = "]"
         /\ \A k \in 2..(n - 1) : t[k] \in WS
      \/ /\ n >= 2 /\ t[1] = Quote /\ t[n] = Quote
         /\ \A k \in 2..(n - 1) :
              t[k] \notin JsonControl \cup {Quote, "\\"}

\* data.get(key, "")
JsonGet(members, key) ==
  IF key \in DOMAIN members THEN members[key] ELSE <<>>

\* data_parser.parse_ai_json: json.loads raising JSONDecodeError, or
\* returning a value without .get, leads to the except branch
parse_ai_json(text) ==
  LET data == json_loads(text)
  IN  IF data.object
      THEN [original_text |-> JsonGet(data.members, Key_original_text),
            error_type |-> JsonGet(data.members, Key_error_type),
            description |-> JsonGet(data.members, Key_description),
            checked_text |-> JsonGet(data.members, Key_checked_text)]
      ELSE [original_text |-> <<>>, error_type |-> <<>>,
            description |-> <<>>, checked_text |-> Strip(text)]

\* data_parser.load_change_out(path): label -> {original_text, error_type,
\* description, checked_text, raw}; the last line of a label is the one kept
data_parser_load_change_out(lines) ==
  LET label_of == [i \in 1..Len(lines) |-> split_label(Strip(lines[i]))[1]]
      labels   == {label_of[i] : i \in 1..Len(lines)} \ {<<>>}
  IN  [l \in labels |->
         LET i       == Max({k \in 1..Len(lines) : label_of[k] = l})
             content == split_label(Strip(lines[i]))[2]
             parsed  == parse_ai_json(content)
         IN  [original_text |-> parsed.original_text,
              error_type |-> parsed.error_type,
              description |-> parsed.description,
              checked_text |-> parsed.checked_text,
              raw |-> content]]

InitPayload ==
  /\ exists = NoFiles
  /\ docs = [d \in DocIds |-> <<>>]
  /\ progress = NoProgress
  /\ cli = CliIdle
  /\ gui = GuiClosed
  /\ report = NoReport
  /\ hist = [lastEnd |-> NoEnd, chain |-> NoChain, faults |-> 0]
  /\ \E sentence \in {Txt_a, Txt_b} :
       \/ \E r \in CheckResults :
            pf = [op |-> "payload", done |-> FALSE, kind |-> "json",
                  sentence |-> sentence, fields |-> r,
                  payload |-> model_dump_json(r), loaded |-> FALSE,
                  data |-> EmptyDict, cli |-> NoView, item |-> NoItem,
                  dp_done |-> FALSE, dp_data |-> EmptyDict]
       \/ \E p \in SeqsUpTo(PayloadChars, MaxPayloadLen) \cup {Txt_ax} :
            pf = [op |-> "payload", done |-> FALSE, kind |-> "text",
                  sentence |-> sentence, fields |-> NoCheckResult,
                  payload |-> p, loaded |-> FALSE,
                  data |-> EmptyDict, cli |-> NoView, item |-> NoItem,
                  dp_done |-> FALSE, dp_data |-> EmptyDict]

\* the two loaders on a change file and a suggestion file of one line each,
\* then what each front end exposes for the first record: the review loop of
\* mode_review_changes and MainWindow._load_review_data
LoadAndPresent ==
  /\ pf.op = "payload"
  /\ ~pf.done
  /\ \E label \in {Tag(1, DocName("d"))} :
     \E data \in {load_change_out(<< label \o pf.payload \o <<"\n">> >>)} :
     \E lines \in {load_filtered_change_lines(
                     << label \o pf.sentence \o <<"\n">> >>, DOMAIN data)} :
       pf' = [pf EXCEPT
                !.done = TRUE,
                !.data = data,
                !.loaded = (lines # <<>>),
                !.cli = IF lines = <<>> THEN NoView
                        ELSE cli_view(lines[1][1], lines[1][2], data),
                !.item = IF lines = <<>> THEN NoItem
                         ELSE ReviewItem(lines[1][1], lines[1][2], data)]
  /\ UNCHANGED << exists, docs, progress, cli, gui, report, hist >>

\* data_parser.load_change_out on the suggestion file of one line
DataParserLoad ==
  /\ pf.op = "payload"
  /\ ~pf.dp_done
  /\ \E data \in {data_parser_load_change_out(
                     << Tag(1, DocName("d")) \o pf.payload \o <<"\n">> >>)} :
       pf' = [pf EXCEPT !.dp_done = TRUE, !.dp_data = data]
  /\ UNCHANGED << exists, docs, progress, cli, gui, report, hist >>

SpecPayload == InitPayload /\ [][LoadAndPresent \/ DataParserLoad]_vars

\* C12: for a suggestion line whose payload is a well-formed structured
\* record, both front ends expose its checked_text as the suggested text and
\* its original_text as the original, and the review tab its error_type and
\* description as the classification of the record.
C12_StructuredFieldsExposed ==
  (pf.op = "payload" /\ pf.done /\ pf.kind = "json") =>
    /\ pf.loaded
    /\ pf.cli.suggestion = pf.fields.checked_text
    /\ pf.cli.origin = pf.fields.original_text
    /\ pf.item.suggestion = pf.fields.checked_text
    /\ pf.item.origin = pf.fields.original_text
    /\ pf.item.error_type = pf.fields.error_type
    /\ pf.item.description = pf.fields.description

\* a text of the form "[...] [...]", stated position by position
IsBracketPair(text) ==
  LET t == Strip(text)
      n == Len(t)
  IN  /\ n >= 4 /\ t[1] = "[" /\ t[n] = "]"
      /\ \E i \in 2..(n - 2) : \E j \in (i + 1)..(n - 1) :
           /\ t[i] = "]" /\ t[j] = "["
           /\ \A k \in (i + 1)..(j - 1) : t[k] \in WS

\* a text that spells the empty JSON object, the one object within reach of
\* the characters of a plain text
IsEmptyObject(text) ==
  LET t == Strip(text)
      n == Len(t)
  IN  /\ n >= 2 /\ t[1] = "{" /\ t[n] = "}"
      /\ \A k \in 2..(n - 1) : t[k] \in WS

\* C13: for a suggestion line whose payload cannot be parsed as a structured
\* record, every structured field of the loaded record is empty, the
\* suggested text (suggestion / checked_text) included, and raw is the payload
\* verbatim; the line is loaded.  Stated of the loader the front ends use and
\* of data_parser.load_change_out.
C13_UnparsableAllEmpty ==
  /\ (pf.op = "payload" /\ pf.done /\ pf.kind = "text"
        /\ ~IsBracketPair(pf.payload)) =>
       /\ DOMAIN pf.data = {Tag(1, DocName("d"))}
       /\ \A l \in DOMAIN pf.data :
            /\ pf.data[l].origin = <<>>
            /\ pf.data[l].suggestion = <<>>
            /\ pf.data[l].raw = pf.payload
  /\ (pf.op = "payload" /\ pf.dp_done /\ pf.kind = "text"
        /\ ~IsEmptyObject(pf.payload)) =>
       /\ DOMAIN pf.dp_data = {Tag(1, DocName("d"))}
       /\ \A l \in DOMAIN pf.dp_data :
            /\ pf.dp_data[l].original_text = <<>>
            /\ pf.dp_data[l].error_type = <<>>
            /\ pf.dp_data[l].description = <<>>
            /\ pf.dp_data[l].checked_text = <<>>
            /\ pf.dp_data[l].raw = pf.payload

\* a payload with no white space at either end: on such a payload the strip
\* of the line before split_label takes nothing from it
Unpadded(text) == text # <<>> /\ Strip(text) = text

\* the structured half of that statement on its own, for the payloads the
\* strip of the line leaves whole: the suggested text is empty in the records
\* of both loaders
UnparsableSuggestionEmpty ==
  (pf.op = "payload" /\ pf.kind = "text" /\ Unpadded(pf.payload)) =>
    /\ (pf.done /\ ~IsBracketPair(pf.payload)) =>
         \A l \in DOMAIN pf.data : pf.data[l].suggestion = <<>>
    /\ (pf.dp_done /\ ~IsEmptyObject(pf.payload)) =>
         \A l \in DOMAIN pf.dp_data : pf.dp_data[l].checked_text = <<>>

\* the other half on the same payloads: the line is loaded, its original
\* text and its classification are empty and raw is the payload
UnparsableRawKept ==
  (pf.op = "payload" /\ pf.kind = "text" /\ Unpadded(pf.payload)) =>
    /\ (pf.done /\ ~IsBracketPair(pf.payload)) =>
         /\ DOMAIN pf.data = {Tag(1, DocName("d"))}
         /\ \A l \in DOMAIN pf.data :
              pf.data[l].origin = <<>> /\ pf.data[l].raw = pf.payload
    /\ (pf.dp_done /\ ~IsEmptyObject(pf.payload)) =>
         /\ DOMAIN pf.dp_data = {Tag(1, DocName("d"))}
         /\ \A l \in DOMAIN pf.dp_data :
              /\ pf.dp_data[l].original_text = <<>>
              /\ pf.dp_data[l].error_type = <<>>
              /\ pf.dp_data[l].description = <<>>
              /\ pf.dp_data[l].raw = pf.payload

----------------------------------------------------------------------------
(* The sentence segmenter, split_into_sentences                            *)

\* the two character classes of sentence_end_pattern.  The pattern also
\* lists the full-width marks and the curly and corner closing quotes; they
\* stand in the same classes and are matched like these
SentenceMarks == {".", "!", "?"}

ClosingMarks == {Quote, "'", ")", "]", "}"}

\* sentence_end_pattern matched at offset i of s: the offset the match ends
\* at, or -1.  The alternatives are tried in order: marks then closers,
\* closers then marks, marks alone; every run is greedy.
pattern_match_at(s, i) ==
  LET m == RunLen(s, i + 1, SentenceMarks)
      c == RunLen(s, i + 1, ClosingMarks)
  IN  IF m >= 1 THEN i + m + RunLen(s, i + m + 1, ClosingMarks)
      ELSE IF c >= 1 /\ RunLen(s, i + c + 1, SentenceMarks) >= 1
      THEN i + c + RunLen(s, i + c + 1, SentenceMarks)
      ELSE -1

\* sentence_end_pattern.search(s): match.end() of the leftmost match, or -1
pattern_search_end(s) ==
  LET hits == {i \in 0..(Len(s) - 1) : pattern_match_at(s, i) # -1}
  IN  IF hits = {} THEN -1 ELSE pattern_match_at(s, Min(hits))

\* str.find(p, from): the offset of the first occurrence at or after from
FindFrom(s, p, from) ==
  LET hits == {i \in from..(Len(s) - Len(p)) : MatchAt(s, p, i)}
  IN  IF hits = {} THEN -1 ELSE Min(hits)

\* the markers of find_inline_style_ranges, in the order they are looked for
StyleMarkers ==
  << <<"*", "*", "*">>, <<"*", "*">>, <<"~", "~">>, <<"*">>, <<"_">> >>

\* the while loop of find_inline_style_ranges for one marker
RECURSIVE marker_ranges(_, _, _)
marker_ranges(text, marker, pos) ==
  IF pos >= Len(text) THEN <<>>
  ELSE LET start == FindFrom(text, marker, pos)
           end   == FindFrom(text, marker, start + Len(marker))
       IN  IF start = -1 THEN <<>>
           ELSE IF end = -1 THEN marker_ranges(text, marker, start + 1)
           ELSE << [start |-> start, end |-> end + Len(marker),
                    marker |-> marker] >>
                \o marker_ranges(text, marker, end + Len(marker))

\* list.sort(key=start), which is stable: one range put in its place
insert_range(sorted, r) ==
  LET k == Cardinality({i \in 1..Len(sorted) : sorted[i].start <= r.start})
  IN  SubSeq(sorted, 1, k) \o << r >> \o SubSeq(sorted, k + 1, Len(sorted))

RECURSIVE sort_by_start(_)
sort_by_start(ranges) ==
  IF ranges = <<>> THEN <<>>
  ELSE insert_range(sort_by_start(SubSeq(ranges, 1, Len(ranges) - 1)),
                    ranges[Len(ranges)])

\* find_inline_style_ranges(text): (start, end, marker), sorted by start
find_inline_style_ranges(text) ==
  sort_by_start(marker_ranges(text, StyleMarkers[1], 0)
                \o marker_ranges(text, StyleMarkers[2], 0)
                \o marker_ranges(text, StyleMarkers[3], 0)
                \o marker_ranges(text, StyleMarkers[4], 0)
                \o marker_ranges(text, StyleMarkers[5], 0))

\* the mutant of is_inside_style: the start of the range is returned
is_inside_style_M(pos, style_ranges) ==
  LET hits == {k \in 1..Len(style_ranges) :
                 style_ranges[k].start < pos /\ pos < style_ranges[k].end}
  IN  IF hits = {} THEN [inside |-> FALSE, end |-> pos]
      ELSE [inside |-> TRUE, end |-> style_ranges[Min(hits)].start]

\* is_inside_style(pos, style_ranges): the first range of the list that
\* holds pos strictly inside decides
is_inside_style(pos, style_ranges) ==
  LET hits == {k \in 1..Len(style_ranges) :
                 style_ranges[k].start < pos /\ pos < style_ranges[k].end}
  IN  IF hits = {} THEN [inside |-> FALSE, end |-> pos]
      ELSE [inside |-> TRUE, end |-> style_ranges[Min(hits)].end]

\* find_sentence_boundary(text, start_pos, style_ranges)
find_sentence_boundary(text, start_pos, style_ranges) ==
  LET match_end == pattern_search_end(SubSeq(text, start_pos + 1, Len(text)))
      punctuation_end == start_pos + match_end
      style == is_inside_style(punctuation_end - 1, style_ranges)
  IN  IF match_end = -1 THEN Len(text)
      ELSE IF style.inside THEN style.end
      ELSE punctuation_end

\* the mutant of re_sub_ws: white space is left as it is
re_sub_ws_M(s) == s

\* re.sub(r'\s+', ' ', s)
RECURSIVE re_sub_ws(_)
re_sub_ws(s) ==
  IF s = <<>> THEN <<>>
  ELSE IF Head(s) \in WS
  THEN <<" ">> \o re_sub_ws(SubSeq(s, RunLen(s, 1, WS) + 1, Len(s)))
  ELSE << Head(s) >> \o re_sub_ws(Tail(s))

FormulaDelimiter == <<"$", "$">>

\* re.sub(r'\$\$.+?\$\$', '', block, flags=re.DOTALL)
RECURSIVE remove_formulas(_)
remove_formulas(block) ==
  LET starts == {i \in 0..(Len(block) - 2) :
                   /\ MatchAt(block, FormulaDelimiter, i)
                   /\ FindFrom(block, FormulaDelimiter, i + 3) # -1}
  IN  IF starts = {} THEN block
      ELSE LET i == Min(starts)
               j == FindFrom(block, FormulaDelimiter, i + 3)
           IN  SubSeq(block, 1, i)
               \o remove_formulas(SubSeq(block, j + 3, Len(block)))

\* block.split('\n')
RECURSIVE split_newline(_)
split_newline(block) ==
  LET i == FindFrom(block, <<"\n">>, 0)
  IN  IF i = -1 THEN << block >>
      ELSE << SubSeq(block, 1, i) >>
           \o split_newline(SubSeq(block, i + 2, Len(block)))

\* the mutant of scan_step: the sentence is taken from the character after
\* pos on
scan_step_M(text, style_ranges, pos) ==
  LET F(end_pos) ==
        LET sentence == Strip(SubSeq(text, pos + 2, end_pos))
        IN  [pos |-> pos, end_pos |-> end_pos,
             emitted |-> IF sentence # <<>> THEN << re_sub_ws(sentence) >>
                         ELSE <<>>,
             next_pos |-> IF end_pos = pos THEN pos + 1 ELSE end_pos]
  IN  F(find_sentence_boundary(text, pos, style_ranges))

\* one iteration of the while loop of split_into_sentences: the boundary
\* found, the sentence appended (none when it is blank) and the next pos
scan_step(text, style_ranges, pos) ==
  LET F(end_pos) ==
        LET sentence == Strip(SubSeq(text, pos + 1, end_pos))
        IN  [pos |-> pos, end_pos |-> end_pos,
             emitted |-> IF sentence # <<>> THEN << re_sub_ws(sentence) >>
                         ELSE <<>>,
             next_pos |-> IF end_pos = pos THEN pos + 1 ELSE end_pos]
  IN  F(find_sentence_boundary(text, pos, style_ranges))

\* the while loop from pos on: the sentences appended
RECURSIVE scan_line(_, _, _)
scan_line(text, style_ranges, pos) ==
  IF pos >= Len(text) THEN <<>>
  ELSE LET G(step) == step.emitted \o scan_line(text, style_ranges, step.next_pos)
       IN  G(scan_step(text, style_ranges, pos))

\* the loop over sub_lines
RECURSIVE split_lines(_)
split_lines(sub_lines) ==
  IF sub_lines = <<>> THEN <<>>
  ELSE LET H(text) ==
             IF text = <<>> THEN <<>>
             ELSE scan_line(text, find_inline_style_ranges(text), 0)
       IN  H(Strip(Head(sub_lines))) \o split_lines(Tail(sub_lines))

\* split_into_sentences(text_blocks)
RECURSIVE split_into_sentences(_)
split_into_sentences(text_blocks) ==
  IF text_blocks = <<>> THEN <<>>
  ELSE split_lines(split_newline(remove_formulas(Head(text_blocks))))
       \o split_into_sentences(Tail(text_blocks))

----------------------------------------------------------------------------
(* split_into_sentences, one loop iteration at a time                      *)

\* where the loops stand after a line: more lines, more blocks, or return
Resume(li, sub_lines, bi, text_blocks) ==
  IF li < Len(sub_lines) THEN "line"
  ELSE IF bi < Len(text_blocks) THEN "block"
  ELSE "done"

NoLink == [open |-> -1, close |-> -1]

\* the call split_into_sentences(text_blocks) before its first block.  link
\* tells where a link stands in the first line when the input was built
\* around one.
SplitStart(text_blocks, link) ==
  [op |-> "split", pc |-> Resume(0, <<>>, 0, text_blocks),
   text_blocks |-> text_blocks, bi |-> 0, sub_lines |-> <<>>, li |-> 0,
   line |-> <<>>, text |-> <<>>, style_ranges |-> <<>>, pos |-> 0,
   steps |-> <<>>, line_out |-> <<>>, cleaned_sentences |-> <<>>,
   link |-> link]

\* the variables of the review session while a function is applied on its
\* own
NoSession ==
  /\ exists = NoFiles
  /\ docs = [d \in DocIds |-> <<>>]
  /\ progress = NoProgress
  /\ cli = CliIdle
  /\ gui = GuiClosed
  /\ report = NoReport
  /\ hist = [lastEnd |-> NoEnd, chain |-> NoChain, faults |-> 0]

\* for block in text_blocks: the formulas are removed and the block is split
\* into lines
NextBlock ==
  /\ pf.op = "split"
  /\ pf.pc = "block"
  /\ \E sl \in {split_newline(remove_formulas(pf.text_blocks[pf.bi + 1]))} :
       pf' = [pf EXCEPT !.bi = pf.bi + 1, !.sub_lines = sl, !.li = 0,
                        !.pc = "line"]
  /\ UNCHANGED << exists, docs, progress, cli, gui, report, hist >>

\* for text in sub_lines: the line is stripped, a blank line is passed over,
\* otherwise the style ranges are found and the scan starts at 0
NextLine ==
  /\ pf.op = "split"
  /\ pf.pc = "line"
  /\ \E text \in {Strip(pf.sub_lines[pf.li + 1])} :
       pf' = [pf EXCEPT
                !.li = pf.li + 1,
                !.line = pf.sub_lines[pf.li + 1],
                !.text = text,
                !.style_ranges = IF text = <<>> THEN <<>>
                                 ELSE find_inline_style_ranges(text),
                !.pos = 0,
                !.steps = <<>>,
                !.line_out = <<>>,
                !.pc = IF text # <<>> THEN "scan"
                       ELSE Resume(pf.li + 1, pf.sub_lines, pf.bi,
                                   pf.text_blocks)]
  /\ UNCHANGED << exists, docs, progress, cli, gui, report, hist >>

\* one iteration of while pos < len(text), and the test of the loop.  The
\* iterations of a line are recorded in steps, up to one more than the line
\* has characters.
ScanStep ==
  /\ pf.op = "split"
  /\ pf.pc = "scan"
  /\ Len(pf.steps) <= Len(pf.text)
  /\ \E step \in {scan_step(pf.text, pf.style_ranges, pf.pos)} :
       pf' = [pf EXCEPT
                !.pos = step.next_pos,
                !.steps = Append(pf.steps,
                                 [pos |-> step.pos, end_pos |-> step.end_pos,
                                  next_pos |-> step.next_pos]),
                !.line_out = pf.line_out \o step.emitted,
                !.cleaned_sentences = pf.cleaned_sentences \o step.emitted,
                !.pc = IF step.next_pos < Len(pf.text) THEN "scan"
                       ELSE Resume(pf.li, pf.sub_lines, pf.bi,
                                   pf.text_blocks)]
  /\ UNCHANGED << exists, docs, progress, cli, gui, report, hist >>

SplitNext == NextBlock \/ NextLine \/ ScanStep

----------------------------------------------------------------------------
(* The segmenter on lines with style markers                               *)

\* the length of a line drawn from the style characters
MaxStyleLen == 6

StyleChars == {"a", ".", "*", "_"}

\* the example of the specification, and two runs of markers that overlap
StyleExamples ==
  { <<"A", " ", "*", "*", "B", ".", " ", "C", ".", "*", "*", " ", "D", ".">>,
    <<"*", "a", " ", "_", "b", ".", "*", " ", "c", ".", " ", "d", "_">> }

InitSplitStyle ==
  /\ NoSession
  /\ \E b \in SeqsUpTo(StyleChars, MaxStyleLen) \cup StyleExamples :
       pf = SplitStart(<< b >>, NoLink)

SpecSplitStyle == InitSplitStyle /\ [][SplitNext]_vars

\* C14: style integrity.  No boundary the scan produces inside a line lies
\* strictly inside a style span find_inline_style_ranges identified for the
\* line, and 'A **B. C.** D.' yields exactly 'A **B. C.**' and 'D.'.
C14_StyleIntegrity ==
  (pf.op = "split") =>
    /\ \A k \in 1..Len(pf.steps) : \A r \in 1..Len(pf.style_ranges) :
         ~(/\ pf.steps[k].end_pos < Len(pf.text)
           /\ pf.style_ranges[r].start < pf.steps[k].end_pos
           /\ pf.steps[k].end_pos < pf.style_ranges[r].end)
    /\ (pf.pc = "done" /\ pf.text_blocks
          = << <<"A", " ", "*", "*", "B", ".", " ", "C", ".", "*", "*",
                 " ", "D", ".">> >>) =>
         pf.cleaned_sentences
           = << <<"A", " ", "*", "*", "B", ".", " ", "C", ".", "*", "*">>,
                <<"D", ".">> >>

----------------------------------------------------------------------------
(* The segmenter on a line that holds a link                               *)

\* the length of the text and of the address of a link
MaxLinkPartLen == 2

LinkChars == {"a", ".", "!", "?"}

\* _extract_inline_text, link_open ... link_close: the link as the extractor
\* writes it into the text of a block
rebuild_link(text, href) ==
  <<"[">> \o text \o <<"]">> \o <<"(">> \o href \o <<")">>

\* what stands before and after the link in its line
LinkPrefixes == { <<>>, <<"a", " ">> }

LinkSuffixes == { <<>>, <<" ", "a", ".">> }

InitSplitLink ==
  /\ NoSession
  /\ \E before \in LinkPrefixes, after \in LinkSuffixes,
        text \in SeqsUpTo(LinkChars, MaxLinkPartLen) \ { <<>> },
        href \in SeqsUpTo(LinkChars, MaxLinkPartLen) \ { <<>> } :
       pf = SplitStart(<< before \o rebuild_link(text, href) \o after >>,
                       [open |-> Len(before),
                        close |-> Len(before) + Len(text) + Len(href) + 3])

SpecSplitLink == InitSplitLink /\ [][SplitNext]_vars

\* C15: link integrity.  In a line that holds a link written as [text](url),
\* no boundary the scan produces falls after the opening bracket and before
\* the closing parenthesis of the link.
C15_LinkIntegrity ==
  (pf.op = "split" /\ pf.link.open >= 0) =>
    \A k \in 1..Len(pf.steps) :
      ~(pf.link.open < pf.steps[k].end_pos
          /\ pf.steps[k].end_pos <= pf.link.close)

\* C16: idempotence.  Every sentence split_into_sentences returns for a list
\* of blocks, segmented again as a block of its own, yields exactly that
\* sentence.
C16_Idempotent ==
  (pf.op = "split" /\ pf.pc = "done") =>
    \A k \in 1..Len(pf.cleaned_sentences) :
      split_into_sentences(<< pf.cleaned_sentences[k] >>)
        = << pf.cleaned_sentences[k] >>

----------------------------------------------------------------------------
(* The segmenter on lines without style markers                            *)

\* the length of a line drawn from the cluster characters
MaxClusterLen == 5

ClusterChars == {"a", ".", ")", Quote, " "}

InitSplitCluster ==
  /\ NoSession
  /\ \E b \in SeqsUpTo(ClusterChars, MaxClusterLen) :
       pf = SplitStart(<< b >>, NoLink)

SpecSplitCluster == InitSplitCluster /\ [][SplitNext]_vars

\* the closing quotes among the closing characters
ClosingQuotes == {Quote, "'"}

\* the characters of t from offset i up to offset e form a run of marks that
\* is not followed by a mark, then all the closing characters next to it
MarksThenClosers(t, i, e) ==
  \E m \in (i + 1)..e :
    /\ \A k \in (i + 1)..m : t[k] \in SentenceMarks
    /\ \A k \in (m + 1)..e : t[k] \in ClosingMarks
    /\ (m < Len(t) /\ m = e) => t[m + 1] \notin SentenceMarks
    /\ e < Len(t) => t[e + 1] \notin ClosingMarks

\* the characters of t from offset i up to offset e form a run of closing
\* characters, then all the marks next to it
ClosersThenMarks(t, i, e) ==
  \E c \in (i + 1)..(e - 1) :
    /\ \A k \in (i + 1)..c : t[k] \in ClosingMarks
    /\ \A k \in (c + 1)..e : t[k] \in SentenceMarks
    /\ e < Len(t) => t[e + 1] \notin SentenceMarks

\* a terminal-punctuation cluster starts at offset i of t and ends at e
ClusterAt(t, i, e) == MarksThenClosers(t, i, e) \/ ClosersThenMarks(t, i, e)

\* the first part of C17: a sentence that is not the last of its line ends
\* at the end of the leftmost cluster at or after its start
C17_EndsAtLeftmostCluster ==
  (pf.op = "split" /\ pf.style_ranges = <<>>) =>
    \A k \in 1..Len(pf.steps) :
      pf.steps[k].end_pos < Len(pf.text) =>
        \E i \in pf.steps[k].pos..(Len(pf.text) - 1) :
          /\ ClusterAt(pf.text, i, pf.steps[k].end_pos)
          /\ \A j \in pf.steps[k].pos..(i - 1) :
               \A e \in (j + 1)..Len(pf.text) : ~ClusterAt(pf.text, j, e)

\* the last part of C17: no boundary stands between a mark and a closing
\* quote that follows it directly
C17_QuoteAfterMark ==
  (pf.op = "split" /\ pf.style_ranges = <<>>) =>
    \A k \in 1..Len(pf.steps) :
      LET b == pf.steps[k].end_pos
      IN  ~(/\ 0 < b /\ b < Len(pf.text)
            /\ pf.text[b] \in SentenceMarks
            /\ pf.text[b + 1] \in ClosingQuotes)

\* C17: cluster boundary rule.  In a line without style spans, every
\* sentence but the last ends exactly at the end of the leftmost cluster at
\* or after its start (marks then closing characters, closing characters
\* then marks, or marks alone), and a mark followed directly by a closing
\* quote gives one boundary, placed after the quote.
C17_ClusterBoundary == C17_EndsAtLeftmostCluster /\ C17_QuoteAfterMark

----------------------------------------------------------------------------
(* The segmenter on blocks of several lines                                *)

\* the length of the first block
MaxBlockLen == 4

SplitChars == {"a", ".", ")", "*", " ", "\n"}

\* the blocks that may follow the first: none, or a block whose first line
\* has no mark and a run of white space, followed by a blank line and by a
\* line that starts inside a formula
SplitTails ==
  { <<>>,
    << <<"a", " ", "\t", " ", "a", "\n", "\n", "$", "$", ".", "\n", "$", "$",
         " ", "a", ".", " ", "a">> >> }

InitSplit ==
  /\ NoSession
  /\ \E b \in SeqsUpTo(SplitChars, MaxBlockLen), tail \in SplitTails :
       pf = SplitStart(<< b >> \o tail, NoLink)

SpecSplit == InitSplit /\ [][SplitNext]_vars

\* the characters of a list of texts, one text after the other
RECURSIVE Flatten(_)
Flatten(texts) ==
  IF texts = <<>> THEN <<>> ELSE Head(texts) \o Flatten(Tail(texts))

\* a text without its white space
NonBlank(t) == SelectSeq(t, LAMBDA c : c \notin WS)

\* the words of a text: its maximal runs of characters other than white
\* space, in order
RECURSIVE Words(_)
Words(t) ==
  IF t = <<>> THEN <<>>
  ELSE IF Head(t) \in WS THEN Words(Tail(t))
  ELSE LET n == Min({k \in 1..Len(t) : k = Len(t) \/ t[k + 1] \in WS})
       IN  << SubSeq(t, 1, n) >> \o Words(SubSeq(t, n + 1, Len(t)))

\* no sentence is blank, none holds a line break or two white-space
\* characters in a row, and the sentences follow the order of the blocks,
\* of their lines and of the positions in a line: without white space, they
\* spell the beginning of the blocks, and all of them at the end
HygieneOfOutput ==
  /\ \A k \in 1..Len(pf.cleaned_sentences) :
       LET s == pf.cleaned_sentences[k]
       IN  /\ Strip(s) # <<>>
           /\ \A i \in 1..Len(s) : s[i] \notin {"\n", "\r"}
           /\ \A i \in 1..(Len(s) - 1) : ~(s[i] \in WS /\ s[i + 1] \in WS)
  /\ LET written == NonBlank(Flatten(pf.cleaned_sentences))
         given   == NonBlank(Flatten([i \in 1..Len(pf.text_blocks) |->
                                        remove_formulas(pf.text_blocks[i])]))
     IN  /\ Len(written) <= Len(given)
         /\ written = SubSeq(given, 1, Len(written))
         /\ pf.pc = "done" => written = given

\* the scan of a line is over
LineScanned == pf.pc # "scan" /\ pf.li >= 1

NoMarkInLine == \A i \in 1..Len(pf.line) : pf.line[i] \notin SentenceMarks

\* the statement of C18 as the specification words it: a line without any
\* terminal-punctuation cluster yields exactly one sentence, the trimmed line
C18_HygieneAsWorded ==
  (pf.op = "split") =>
    /\ HygieneOfOutput
    /\ (LineScanned /\ NoMarkInLine) => pf.line_out = << Strip(pf.line) >>

\* C18: output hygiene.  No sentence is empty or blank, none holds a line
\* break or two white-space characters in a row, the sentences come in block
\* order, then line order, then from left to right, and a line that is not
\* blank and has no terminal-punctuation cluster yields exactly one
\* sentence: the words of the line separated by single blanks (a blank line
\* yields no sentence).
C18_Hygiene ==
  (pf.op = "split") =>
    /\ HygieneOfOutput
    /\ (LineScanned /\ NoMarkInLine) =>
         IF Strip(pf.line) = <<>> THEN pf.line_out = <<>>
         ELSE /\ Len(pf.line_out) = 1
              /\ Words(pf.line_out[1]) = Words(pf.line)
              /\ Len(pf.line_out[1])
                   = Len(NonBlank(pf.line)) + Len(Words(pf.line)) - 1
              /\ \A i \in 1..Len(pf.line_out[1]) :
                   pf.line_out[1][i] \in WS => pf.line_out[1][i] = " "

\* two blocks have been segmented: the first gave two sentences on two
\* lines, the second has a line without mark whose white space was
\* collapsed, a blank line and a formula
C18_Witness ==
  /\ pf.op = "split" /\ pf.pc = "done"
  /\ Len(pf.text_blocks) = 2
  /\ pf.text_blocks[1] = <<"a", ".", "\n", "a">>
  /\ pf.cleaned_sentences
       = << <<"a", ".">>, <<"a">>, <<"a", " ", "a">>, <<"a", ".">>, <<"a">> >>

\* an iteration of one of the loops of split_into_sentences can be taken
SplitEnabled ==
  /\ pf.op = "split"
  /\ \/ pf.pc \in {"block", "line"}
     \/ pf.pc = "scan" /\ Len(pf.steps) <= Len(pf.text)

\* the loops of split_into_sentences run on: no iteration is withheld.  The
\* conjunct is WF_vars(SplitNext) written out, SplitEnabled being
\* ENABLED <<SplitNext>>_vars (every iteration changes bi, li or steps).
SpecSplitFair ==
  /\ InitSplit
  /\ [][SplitNext]_vars
  /\ ([]<>(~SplitEnabled) \/ []<><<SplitNext>>_vars)

\* every iteration recorded for the line starts inside the line and where
\* the one before ended, moves pos forward (the boundary is beyond pos, or
\* pos advances by one), and there are no more iterations than characters
ScanAdvances ==
  (pf.op = "split") =>
    /\ Len(pf.steps) <= Len(pf.text)
    /\ \A k \in 1..Len(pf.steps) :
         /\ pf.steps[k].pos < Len(pf.text)
         /\ pf.steps[k].next_pos > pf.steps[k].pos
         /\ \/ pf.steps[k].end_pos > pf.steps[k].pos
            \/ pf.steps[k].next_pos = pf.steps[k].pos + 1
         /\ k > 1 => pf.steps[k].pos = pf.steps[k - 1].next_pos
    /\ pf.pc = "scan" => pf.pos < Len(pf.text)

\* C19: termination.  In the scan loop pos increases strictly in every
\* iteration, so the loop of a line ends after at most len(line) iterations,
\* and split_into_sentences returns on every input.
C19_Terminates == []ScanAdvances /\ <>(pf.op = "split" /\ pf.pc = "done")

\* the call has returned after a line of four characters that took two
\* iterations, the first of them ending at the end of a style span and not
\* at the mark inside it
C19_Witness ==
  /\ pf.op = "split" /\ pf.pc = "done"
  /\ pf.text = <<"*", ".", "*", ".">>
  /\ Len(pf.steps) = 2
  /\ pf.steps[1].end_pos = 3
  /\ pf.steps[2].next_pos = 4

\* ---------------------------------------------------------------------
\* extract_text_from_markdown: the filter over the token stream
\* ---------------------------------------------------------------------

\* the length of the free part of a token stream
MaxTokens == 3

\* stands for the private-use character U+E000 that protects an escape
Placeholder == "E000"

Backslash == "\\"

\* stands for the grave accent U+0060 that encloses inline code
Backtick == "U0060"

\* s.replace(placeholder, backslash)
replace_placeholder(s) ==
  [i \in 1..Len(s) |-> IF s[i] = Placeholder THEN Backslash ELSE s[i]]

\* "".join(parts)
RECURSIVE join_parts(_)
join_parts(parts) ==
  IF parts = <<>> THEN <<>> ELSE Head(parts) \o join_parts(Tail(parts))

\* a child of an inline token
Child(type, content, markup, href) ==
  [type |-> type, content |-> content, markup |-> markup, href |-> href]

\* the mutant of close_link: a link that holds an image is written like any
\* other
close_link_M(parts, link_info) ==
  parts \o << <<"]">>, <<"(">> \o link_info.href \o <<")">> >>

\* link_close with a link open: what was written since the opening marker
\* is taken back when the link holds an image, otherwise the link is closed
\* and its address written
close_link(parts, link_info) ==
  IF link_info.has_image
  THEN SubSeq(parts, 1, link_info.parts_index)
  ELSE parts \o << <<"]">>, <<"(">> \o link_info.href \o <<")">> >>

\* the loop over inline_token.children: parts after the children from k on
RECURSIVE inline_parts(_, _, _, _)
inline_parts(children, k, parts, link_stack) ==
  IF k > Len(children) THEN parts
  ELSE
    LET child == children[k]
        n == Len(link_stack)
    IN  CASE child.type = "image" ->
               inline_parts(children, k + 1, parts,
                            IF n > 0
                            THEN [link_stack EXCEPT ![n].has_image = TRUE]
                            ELSE link_stack)
          [] child.type \in {"text", "html_inline"} ->
               inline_parts(children, k + 1, Append(parts, child.content),
                            link_stack)
          [] child.type = "code_inline" ->
               inline_parts(children, k + 1,
                            Append(parts, <<Backtick>> \o child.content \o <<Backtick>>),
                            link_stack)
          [] child.type \in {"strong_open", "strong_close",
                             "em_open", "em_close"} ->
               inline_parts(children, k + 1, Append(parts, child.markup),
                            link_stack)
          [] child.type = "link_open" ->
               inline_parts(children, k + 1, Append(parts, <<"[">>),
                            Append(link_stack,
                                   [parts_index |-> Len(parts),
                                    href |-> child.href,
                                    has_image |-> FALSE]))
          [] child.type = "link_close" ->
               IF n > 0
               THEN inline_parts(children, k + 1,
                                 close_link(parts, link_stack[n]),
                                 SubSeq(link_stack, 1, n - 1))
               ELSE inline_parts(children, k + 1, Append(parts, <<"]">>),
                                 link_stack)
          [] child.type \in {"softbreak", "hardbreak"} ->
               inline_parts(children, k + 1, Append(parts, <<"\n">>),
                            link_stack)
          [] OTHER ->
               inline_parts(children, k + 1, parts, link_stack)

\* _extract_inline_text(inline_token)
extract_inline_text(inline_token) ==
  IF inline_token.children = <<>>
  THEN replace_placeholder(inline_token.content)
  ELSE replace_placeholder(
         join_parts(inline_parts(inline_token.children, 1, <<>>, <<>>)))

\* the mutant of in_table: only the innermost open block is looked at
in_table_M(stack) ==
  /\ stack # <<>>
  /\ stack[Len(stack)] \in {"table_open", "thead_open", "tbody_open",
                            "tr_open", "th_open", "td_open"}

table_tokens ==
  {"table_open", "thead_open", "tbody_open", "tr_open", "th_open", "td_open"}

\* in_table = any(t in table_tokens for t in stack)
in_table(stack) == \E i \in 1..Len(stack) : stack[i] \in table_tokens

in_paragraph(stack) == \E i \in 1..Len(stack) : stack[i] = "paragraph_open"

in_list_item(stack) == \E i \in 1..Len(stack) : stack[i] = "list_item_open"

in_heading(stack) == \E i \in 1..Len(stack) : stack[i] = "heading_open"

in_blockquote(stack) == \E i \in 1..Len(stack) : stack[i] = "blockquote_open"

\* the condition under which text_blocks.append(inline_text) is reached
block_wanted(stack) ==
  /\ in_paragraph(stack) \/ in_list_item(stack) \/ in_blockquote(stack)
  /\ ~in_heading(stack)
  /\ ~in_table(stack)

\* a block token of the parser: opening (nesting 1), closing (nesting -1)
\* or standing alone (nesting 0)
Token(type, nesting) ==
  [type |-> type, nesting |-> nesting, content |-> <<>>, children |-> <<>>]

\* an inline token with its source text and its children
InlineToken(content, children) ==
  [type |-> "inline", nesting |-> 0, content |-> content,
   children |-> children]

TextChild(content) == Child("text", content, <<>>, <<>>)

\* the inline token of a line of plain text
InlineText(content) == InlineToken(content, << TextChild(content) >>)

\* the inline token of a line that holds one image and nothing else
InlineImage ==
  InlineToken(<<"!", "[", "]", "(", "u", ")">>,
              << Child("image", <<>>, <<>>, <<>>) >>)

\* the tokens the free part of a stream is drawn from
StreamTokens ==
  { Token("paragraph_open", 1), Token("list_item_open", 1),
    Token("heading_open", 1), Token("td_open", 1),
    Token("bullet_list_open", 1),
    Token("paragraph_close", -1),
    Token("fence", 0),
    InlineText(<<"a">>), InlineImage }

\* a quotation that holds a table and then a paragraph with an escaped
\* star, a link and a line break; and a stream with white space alone in a
\* paragraph
StreamTails ==
  { <<>>,
    << Token("blockquote_open", 1),
       Token("table_open", 1), Token("thead_open", 1), Token("tr_open", 1),
       Token("th_open", 1), InlineText(<<"h">>), Token("th_close", -1),
       Token("tr_close", -1), Token("thead_close", -1),
       Token("tbody_open", 1), Token("tr_open", 1), Token("td_open", 1),
       InlineText(<<"c">>), Token("td_close", -1), Token("tr_close", -1),
       Token("tbody_close", -1), Token("table_close", -1),
       Token("paragraph_open", 1),
       InlineToken(<<Placeholder, "*", "[", "b", "]", "(", "u", ")">>,
                   << TextChild(<<Placeholder, "*">>),
                      Child("link_open", <<>>, <<>>, <<"u">>),
                      TextChild(<<"b">>),
                      Child("link_close", <<>>, <<>>, <<>>),
                      Child("softbreak", <<>>, <<>>, <<>>) >>),
       Token("paragraph_close", -1),
       Token("blockquote_close", -1) >>,
    << Token("paragraph_open", 1), InlineToken(<<" ">>, <<>>),
       Token("paragraph_close", -1) >> }

\* the loop for token in tokens before its first token.  emitted is the
\* record of the tokens whose text was appended.
ExtractStart(tokens) ==
  [op |-> "extract", pc |-> IF tokens = <<>> THEN "done" ELSE "token",
   tokens |-> tokens, ti |-> 0, stack |-> <<>>, text_blocks |-> <<>>,
   emitted |-> <<>>]

\* the position after the token at ti + 1
AfterToken == IF pf.ti + 1 < Len(pf.tokens) THEN "token" ELSE "done"

\* if token.nesting == 1: stack.append(token.type); continue
TokenOpen ==
  /\ pf.op = "extract"
  /\ pf.pc = "token"
  /\ pf.tokens[pf.ti + 1].nesting = 1
  /\ pf' = [pf EXCEPT !.ti = pf.ti + 1,
                      !.stack = Append(pf.stack, pf.tokens[pf.ti + 1].type),
                      !.pc = AfterToken]
  /\ UNCHANGED << exists, docs, progress, cli, gui, report, hist >>

\* if token.nesting == -1: if stack: stack.pop(); continue
TokenClose ==
  /\ pf.op = "extract"
  /\ pf.pc = "token"
  /\ pf.tokens[pf.ti + 1].nesting = -1
  /\ pf' = [pf EXCEPT !.ti = pf.ti + 1,
                      !.stack = IF pf.stack # <<>>
                                THEN SubSeq(pf.stack, 1, Len(pf.stack) - 1)
                                ELSE pf.stack,
                      !.pc = AfterToken]
  /\ UNCHANGED << exists, docs, progress, cli, gui, report, hist >>

\* if token.type != "inline": continue
TokenOther ==
  /\ pf.op = "extract"
  /\ pf.pc = "token"
  /\ pf.tokens[pf.ti + 1].nesting = 0
  /\ pf.tokens[pf.ti + 1].type # "inline"
  /\ pf' = [pf EXCEPT !.ti = pf.ti + 1, !.pc = AfterToken]
  /\ UNCHANGED << exists, docs, progress, cli, gui, report, hist >>

\* an inline token: its text is rebuilt and stripped, passed over when
\* empty, and appended when the open blocks ask for it
TokenInline ==
  /\ pf.op = "extract"
  /\ pf.pc = "token"
  /\ pf.tokens[pf.ti + 1].nesting = 0
  /\ pf.tokens[pf.ti + 1].type = "inline"
  /\ \E inline_text \in {Strip(extract_inline_text(pf.tokens[pf.ti + 1]))} :
       IF inline_text # <<>> /\ block_wanted(pf.stack)
       THEN pf' = [pf EXCEPT
                     !.ti = pf.ti + 1,
                     !.text_blocks = Append(pf.text_blocks, inline_text),
                     !.emitted = Append(pf.emitted, pf.ti + 1),
                     !.pc = AfterToken]
       ELSE pf' = [pf EXCEPT !.ti = pf.ti + 1, !.pc = AfterToken]
  /\ UNCHANGED << exists, docs, progress, cli, gui, report, hist >>

ExtractNext == TokenOpen \/ TokenClose \/ TokenOther \/ TokenInline

InitExtract ==
  /\ NoSession
  /\ \E free \in SeqsUpTo(StreamTokens, MaxTokens), tail \in StreamTails :
       pf = ExtractStart(free \o tail)

SpecExtract == InitExtract /\ [][ExtractNext]_vars

\* from token j to token n the number of blocks opened and not yet closed,
\* counted from bal, never falls below zero
RECURSIVE StaysOpen(_, _, _, _)
StaysOpen(tokens, j, n, bal) ==
  \/ j > n
  \/ /\ bal + tokens[j].nesting >= 0
     /\ StaysOpen(tokens, j + 1, n, bal + tokens[j].nesting)

\* the opening token at i is still open after the first n tokens: no token
\* after it closed more blocks than were opened after it
StillOpen(tokens, i, n) ==
  /\ tokens[i].nesting = 1
  /\ StaysOpen(tokens, i + 1, n, 0)

\* the kinds of the blocks open after the first n tokens, outermost first
RECURSIVE OpenKinds(_, _, _)
OpenKinds(tokens, i, n) ==
  IF i > n THEN <<>>
  ELSE (IF StillOpen(tokens, i, n) THEN << tokens[i].type >> ELSE <<>>)
       \o OpenKinds(tokens, i + 1, n)

\* the open blocks ask for the text: a paragraph, a list item or a
\* quotation is open, and no heading and no part of a table at any depth
SpanWanted(kinds) ==
  LET open == {kinds[i] : i \in 1..Len(kinds)}
  IN  /\ open \cap {"paragraph_open", "list_item_open", "blockquote_open"}
           # {}
      /\ open \cap {"heading_open", "table_open", "thead_open", "tbody_open",
                    "tr_open", "th_open", "td_open"} = {}

\* the text of the inline token at k, as the filter sees it
SpanOf(tokens, k) == Strip(extract_inline_text(tokens[k]))

\* C20: the context-stack filter.  After every token the stack holds
\* exactly the kinds of the blocks still open, outermost first; the text of
\* an inline token that is not empty has been appended if and only if, when
\* the token was met, a paragraph, a list item or a quotation was open and
\* no heading and no part of a table was open at any depth; and the texts
\* appended stand in the order of their tokens.
C20_ContextFilter ==
  (pf.op = "extract") =>
    /\ pf.stack = OpenKinds(pf.tokens, 1, pf.ti)
    /\ \A k \in 1..pf.ti :
         (\E e \in 1..Len(pf.emitted) : pf.emitted[e] = k)
           <=> /\ pf.tokens[k].nesting = 0
               /\ pf.tokens[k].type = "inline"
               /\ SpanOf(pf.tokens, k) # <<>>
               /\ SpanWanted(OpenKinds(pf.tokens, 1, k - 1))
    /\ Len(pf.text_blocks) = Len(pf.emitted)
    /\ \A e \in 1..Len(pf.emitted) :
         /\ pf.text_blocks[e] = SpanOf(pf.tokens, pf.emitted[e])
         /\ e > 1 => pf.emitted[e - 1] < pf.emitted[e]

\* the stream is finished: the text of a first paragraph was appended, the
\* texts of the table inside the quotation were passed over, and the
\* paragraph of the quotation was appended after it, with its escape and its
\* link rebuilt
C20_Witness ==
  /\ pf.op = "extract" /\ pf.pc = "done"
  /\ Len(pf.tokens) = 24
  /\ pf.tokens[1].type = "paragraph_open"
  /\ pf.tokens[3].type = "paragraph_close"
  /\ pf.stack = <<>>
  /\ pf.emitted = << 2, 22 >>
  /\ pf.text_blocks
       = << <<"a">>, <<Backslash, "*", "[", "b", "]", "(", "u", ")">> >>

\* ---------------------------------------------------------------------
\* extract_text_from_markdown: the front matter
\* ---------------------------------------------------------------------

\* the length of the free part of a document
MaxFrontLen == 6

FrontSentinel == <<"-", "-", "-">>

FrontChars == {"-", "a", " ", "\n"}

\* a document with a metadata block and a body, put after the free part
FrontTails ==
  { <<>>,
    <<"-", "-", "-", "\n", "t", "\n", "-", "-", "-", "\n", "b">> }

\* content.split('---', 2)
split_front(content) ==
  LET i == Find(content, FrontSentinel)
      j == FindFrom(content, FrontSentinel, i + 3)
  IN  IF i = -1 THEN << content >>
      ELSE IF j = -1
      THEN << SubSeq(content, 1, i), SubSeq(content, i + 4, Len(content)) >>
      ELSE << SubSeq(content, 1, i), SubSeq(content, i + 4, j),
              SubSeq(content, j + 4, Len(content)) >>

\* the mutant of before_is_blank: nothing at all may stand before the
\* sentinel
before_is_blank_M(part) == part = <<>>

\* parts[0].strip() == ''
before_is_blank(part) == Strip(part) = <<>>

\* markdown_body after the front matter was looked for
remove_front_matter(content) ==
  LET F(parts) ==
        IF Len(parts) = 3 /\ before_is_blank(parts[1]) THEN parts[3]
        ELSE content
  IN  F(split_front(content))

\* the document is read and the front matter is about to be looked for
FrontStart(content) ==
  [op |-> "front", pc |-> "read", content |-> content, markdown_body |-> <<>>]

\* step 1 of extract_text_from_markdown
RemoveFrontMatter ==
  /\ pf.op = "front"
  /\ pf.pc = "read"
  /\ \E body \in {remove_front_matter(pf.content)} :
       pf' = [pf EXCEPT !.markdown_body = body, !.pc = "done"]
  /\ UNCHANGED << exists, docs, progress, cli, gui, report, hist >>

InitFront ==
  /\ NoSession
  /\ \E free \in SeqsUpTo(FrontChars, MaxFrontLen), tail \in FrontTails :
       pf = FrontStart(free \o tail)

SpecFront == InitFront /\ [][RemoveFrontMatter]_vars

\* the sentinel stands at offset i of the document
SentinelAt(content, i) ==
  /\ i + 3 <= Len(content)
  /\ \A k \in 1..3 : content[i + k] = "-"

\* the offsets at which a closing sentinel stands after the opening one at i
ClosingAfter(content, i) ==
  {j \in (i + 3)..(Len(content) - 3) : SentinelAt(content, j)}

\* what is left of a document whose block opens at i: everything after the
\* first closing sentinel
BodyAfter(content, i) ==
  SubSeq(content, Min(ClosingAfter(content, i)) + 4, Len(content))

\* the offsets at which the block may open when only white space stands
\* before it
BlankOpenings(content) ==
  {i \in 0..Len(content) :
     /\ SentinelAt(content, i)
     /\ \A k \in 1..i : content[k] \in WS
     /\ ClosingAfter(content, i) # {}}

\* C21 as worded: the block is removed when the document opens with the
\* sentinel and a closing sentinel stands later, the body is what follows
\* the closing sentinel, and in every other case nothing is removed.
C21_FrontMatterAsWorded ==
  (pf.op = "front" /\ pf.pc = "done") =>
    pf.markdown_body
      = IF SentinelAt(pf.content, 0) /\ ClosingAfter(pf.content, 0) # {}
        THEN BodyAfter(pf.content, 0)
        ELSE pf.content

\* C21: front-matter stripping.  One leading block is removed when the
\* document opens with the sentinel, with nothing but white space before it,
\* and a closing sentinel stands later; the body is everything after the
\* first closing sentinel; in every other case nothing is removed.
C21_FrontMatter ==
  (pf.op = "front" /\ pf.pc = "done") =>
    pf.markdown_body
      = IF BlankOpenings(pf.content) # {}
        THEN BodyAfter(pf.content, Min(BlankOpenings(pf.content)))
        ELSE pf.content

\* a blank line stands before the block, and the block was removed
C21_Witness ==
  /\ pf.op = "front" /\ pf.pc = "done"
  /\ pf.content
       = <<"\n", "-", "-", "-", "\n", "t", "\n", "-", "-", "-", "\n", "b">>
  /\ pf.markdown_body = <<"\n", "b">>

\* ---------------------------------------------------------------------
\* extract_text_from_markdown: escaped punctuation
\* ---------------------------------------------------------------------

\* the number of characters and escapes in one piece of a span
MaxEscUnits == 2

\* [!"#$%&'()*+,-./:;<=>?@\[\\\]^_`{|}~]
AsciiPunct ==
  {"!", Quote, "#", "$", "%", "&", "'", "(", ")", "*", "+", ",", "-", ".",
   "/", ":", ";", "<", "=", ">", "?", "@", "[", Backslash, "]", "^", "_",
   Backtick, "{", "|", "}", "~"}

\* re.sub(r'\\([punctuation])', placeholder + r'\\\1', markdown_body), from
\* the character at index i on
RECURSIVE protect_from(_, _)
protect_from(s, i) ==
  IF i > Len(s) THEN <<>>
  ELSE IF s[i] = Backslash /\ i < Len(s) /\ s[i + 1] \in AsciiPunct
  THEN << Placeholder, Backslash, s[i + 1] >> \o protect_from(s, i + 2)
  ELSE << s[i] >> \o protect_from(s, i + 1)

\* 2. the escapes are protected
protect_escapes(markdown_body) == protect_from(markdown_body, 1)

\* the parser takes a backslash before a punctuation character away
RECURSIVE md_unescape(_, _)
md_unescape(s, i) ==
  IF i > Len(s) THEN <<>>
  ELSE IF s[i] = Backslash /\ i < Len(s) /\ s[i + 1] \in AsciiPunct
  THEN << s[i + 1] >> \o md_unescape(s, i + 2)
  ELSE << s[i] >> \o md_unescape(s, i + 1)

\* the placeholder as the parser writes it into an address: the bytes of
\* U+E000 in UTF-8, percent-encoded
PlaceholderEncoded == <<"%", "E", "E", "%", "8", "0", "%", "8", "0">>

RECURSIVE md_encode(_)
md_encode(s) ==
  IF s = <<>> THEN <<>>
  ELSE (IF Head(s) = Placeholder THEN PlaceholderEncoded ELSE << Head(s) >>)
       \o md_encode(Tail(s))

\* the address of a link as the parser gives it: unescaped, then normalised
md_href(s) == md_encode(md_unescape(s, 1))

\* the text children gathered so far, with the pending text put last
md_flush(children, pending) ==
  IF pending = <<>> THEN children ELSE Append(children, TextChild(pending))

\* md.parse on the text of one paragraph: the children of its inline token,
\* for text with escapes, inline code, inline markup in angle brackets and
\* links.  i is the index of the next character, pending the text run being
\* read.
RECURSIVE md_inline(_, _, _, _)
md_inline(s, i, pending, children) ==
  IF i > Len(s) THEN md_flush(children, pending)
  ELSE IF s[i] = Backslash /\ i < Len(s) /\ s[i + 1] \in AsciiPunct
  THEN md_inline(s, i + 2, Append(pending, s[i + 1]), children)
  ELSE IF s[i] = Backtick /\ FindFrom(s, << Backtick >>, i) # -1
  THEN LET F(k) ==
             md_inline(s, k + 2, <<>>,
                       Append(md_flush(children, pending),
                              Child("code_inline", SubSeq(s, i + 1, k),
                                    << Backtick >>, <<>>)))
       IN  F(FindFrom(s, << Backtick >>, i))
  ELSE IF s[i] = "<" /\ FindFrom(s, <<">">>, i) # -1
  THEN LET F(k) ==
             md_inline(s, k + 2, <<>>,
                       Append(md_flush(children, pending),
                              Child("html_inline", SubSeq(s, i, k + 1),
                                    <<>>, <<>>)))
       IN  F(FindFrom(s, <<">">>, i))
  ELSE IF /\ s[i] = "["
          /\ FindFrom(s, <<"]", "(">>, i) # -1
          /\ FindFrom(s, <<")">>, FindFrom(s, <<"]", "(">>, i)) # -1
  THEN LET F(m, n) ==
             md_inline(s, n + 2, <<>>,
                       md_flush(children, pending)
                       \o << Child("link_open", <<>>, <<>>,
                                   md_href(SubSeq(s, m + 3, n))) >>
                       \o md_inline(SubSeq(s, i + 1, m), 1, <<>>, <<>>)
                       \o << Child("link_close", <<>>, <<>>, <<>>) >>)
       IN  F(FindFrom(s, <<"]", "(">>, i),
             FindFrom(s, <<")">>, FindFrom(s, <<"]", "(">>, i)))
  ELSE md_inline(s, i + 1, Append(pending, s[i]), children)

\* a line that is one tag in angle brackets with nothing but blanks after
\* it starts a block of raw markup, not a paragraph
is_html_block(markdown_body) ==
  /\ markdown_body # <<>>
  /\ markdown_body[1] = "<"
  /\ FindFrom(markdown_body, <<">">>, 0) # -1
  /\ \A k \in (FindFrom(markdown_body, <<">">>, 0) + 2)..Len(markdown_body) :
       markdown_body[k] \in {" ", "\t"}

\* tokens = md.parse(markdown_body) for a body of one line: a block of raw
\* markup, or a paragraph with its inline token
md_parse(markdown_body) ==
  IF is_html_block(markdown_body)
  THEN << [Token("html_block", 0) EXCEPT !.content = markdown_body] >>
  ELSE << Token("paragraph_open", 1),
          InlineToken(markdown_body, md_inline(markdown_body, 1, <<>>, <<>>)),
          Token("paragraph_close", -1) >>

\* the loop over the tokens from token i on: the text blocks appended
RECURSIVE token_loop(_, _, _)
token_loop(tokens, i, stack) ==
  IF i > Len(tokens) THEN <<>>
  ELSE IF tokens[i].nesting = 1
  THEN token_loop(tokens, i + 1, Append(stack, tokens[i].type))
  ELSE IF tokens[i].nesting = -1
  THEN token_loop(tokens, i + 1,
                  IF stack # <<>> THEN SubSeq(stack, 1, Len(stack) - 1)
                  ELSE stack)
  ELSE IF tokens[i].type # "inline"
  THEN token_loop(tokens, i + 1, stack)
  ELSE LET F(inline_text) ==
             (IF inline_text # <<>> /\ block_wanted(stack)
              THEN << inline_text >> ELSE <<>>)
             \o token_loop(tokens, i + 1, stack)
       IN  F(Strip(extract_inline_text(tokens[i])))

\* what a piece of a span is written of: a letter, an escaped star, an
\* escaped full stop
EscUnits == { <<"a">>, <<Backslash, "*">>, <<Backslash, ".">> }

RECURSIVE UnitSeqs(_)
UnitSeqs(n) ==
  IF n = 0 THEN { <<>> }
  ELSE UnitSeqs(n - 1) \cup {q \o u : q \in UnitSeqs(n - 1), u \in EscUnits}

EscBodies == UnitSeqs(MaxEscUnits) \ { <<>> }

\* the pieces of a span, as the document has them: a text run, inline code,
\* inline markup, a link with escapes in its address, a link with escapes in
\* its text
SpanPieces ==
  [kind : {"text"}, src : EscBodies]
  \cup [kind : {"code"},
        src : {<< Backtick >> \o b \o << Backtick >> : b \in EscBodies}]
  \cup [kind : {"html"},
        src : {<<"<", "b", " ", "t", "=", Quote>> \o b \o <<Quote, ">">> :
                 b \in EscBodies}]
  \cup [kind : {"href"},
        src : {<<"[", "t", "]", "(">> \o b \o <<")">> : b \in EscBodies}]
  \cup [kind : {"link"},
        src : {<<"[">> \o b \o <<"]", "(", "u", ")">> : b \in EscBodies}]

\* a paragraph of one piece, or of two pieces with a letter between them
EscapeStart(source, kinds) ==
  [op |-> "escape", pc |-> "body", source |-> source, kinds |-> kinds,
   markdown_body |-> source, tokens |-> <<>>, text_blocks |-> <<>>]

\* 2. markdown_body = re.sub(...)
ProtectEscapes ==
  /\ pf.op = "escape"
  /\ pf.pc = "body"
  /\ \E body \in {protect_escapes(pf.markdown_body)} :
       pf' = [pf EXCEPT !.markdown_body = body, !.pc = "protected"]
  /\ UNCHANGED << exists, docs, progress, cli, gui, report, hist >>

\* 3. tokens = md.parse(markdown_body)
ParseBody ==
  /\ pf.op = "escape"
  /\ pf.pc = "protected"
  /\ \E tokens \in {md_parse(pf.markdown_body)} :
       pf' = [pf EXCEPT !.tokens = tokens, !.pc = "parsed"]
  /\ UNCHANGED << exists, docs, progress, cli, gui, report, hist >>

\* 4. the loop over the tokens: the text of the inline token of a
\* paragraph is rebuilt, stripped and appended
ExtractBlocks ==
  /\ pf.op = "escape"
  /\ pf.pc = "parsed"
  /\ \E text_blocks \in {token_loop(pf.tokens, 1, <<>>)} :
       pf' = [pf EXCEPT !.text_blocks = text_blocks, !.pc = "done"]
  /\ UNCHANGED << exists, docs, progress, cli, gui, report, hist >>

EscapeNext == ProtectEscapes \/ ParseBody \/ ExtractBlocks

InitEscape ==
  /\ NoSession
  /\ \/ \E p \in SpanPieces : pf = EscapeStart(p.src, << p.kind >>)
     \/ \E p \in SpanPieces, r \in SpanPieces :
          pf = EscapeStart(p.src \o <<"a">> \o r.src, << p.kind, r.kind >>)

SpecEscape == InitEscape /\ [][EscapeNext]_vars

\* the characters that stand escaped in s, in their order
RECURSIVE EscapedIn(_, _)
EscapedIn(s, i) ==
  IF i >= Len(s) THEN <<>>
  ELSE IF s[i] = Backslash /\ s[i + 1] \in AsciiPunct
  THEN << s[i + 1] >> \o EscapedIn(s, i + 2)
  ELSE EscapedIn(s, i + 1)

\* the number of backslashes of s
Backslashes(s) == Cardinality({i \in 1..Len(s) : s[i] = Backslash})

\* the escapes of the source stand in the text, and nothing else of them:
\* the same escaped characters in the same order, as many backslashes, and
\* no placeholder
EscapesKept(source, text) ==
  /\ EscapedIn(text, 1) = EscapedIn(source, 1)
  /\ Backslashes(text) = Backslashes(source)
  /\ \A i \in 1..Len(text) : text[i] # Placeholder

\* C22: escaped punctuation survives extraction.  For a paragraph whose text
\* holds escaped punctuation in a text run, in inline code, in inline markup
\* or in a link, the span appended holds the same escapes at the same
\* places, no backslash more or less, and no placeholder.
C22_EscapesSurvive ==
  (pf.op = "escape" /\ pf.pc = "done") =>
    /\ Len(pf.text_blocks) = 1
    /\ EscapesKept(pf.source, pf.text_blocks[1])

\* in text runs and in the text of a link the escapes survive: the span
\* appended is the source itself
C22_TextEscapesSurvive ==
  (/\ pf.op = "escape" /\ pf.pc = "done"
   /\ \A k \in 1..Len(pf.kinds) : pf.kinds[k] \in {"text", "link"}) =>
    pf.text_blocks = << pf.source >>

\* ---------------------------------------------------------------------
\* _extract_inline_text: links
\* ---------------------------------------------------------------------

\* the number of items in a span
MaxSpanItems == 3

\* an item of a span as the document has it: a text run, an image, inline
\* code, or a link around items of its own
SpanItem(kind, content, inner, href) ==
  [kind |-> kind, content |-> content, inner |-> inner, href |-> href]

TextItem(content) == SpanItem("text", content, <<>>, <<>>)

ImageItem == SpanItem("image", <<>>, <<>>, <<>>)

CodeItem(content) == SpanItem("code", content, <<>>, <<>>)

LinkItem(inner, href) == SpanItem("link", <<>>, inner, href)

\* what stands inside the links of the spans
LinkInners ==
  { <<>>,
    << TextItem(<<"t">>) >>,
    << ImageItem >>,
    << TextItem(<<"t">>), ImageItem >>,
    << ImageItem, TextItem(<<"t">>) >>,
    << TextItem(<<"t">>), CodeItem(<<"c">>) >> }

LinkHrefs == { <<>>, <<"u">> }

SpanItems ==
  { TextItem(<<"a">>), ImageItem, CodeItem(<<"c">>) }
  \cup {LinkItem(inner, href) : inner \in LinkInners, href \in LinkHrefs}

\* the items of a span as the parser reads the text they are written as:
\* two texts side by side are one run of text, and two code spans side by
\* side, written `c``c`, are one code span, the two grave accents between
\* them being no closing run of the length of the opening one
RECURSIVE merge_adjacent(_)
merge_adjacent(items) ==
  IF Len(items) < 2 THEN items
  ELSE LET a == items[1]
           b == items[2]
           rest == SubSeq(items, 3, Len(items))
       IN  IF a.kind = "text" /\ b.kind = "text"
           THEN merge_adjacent(<< TextItem(a.content \o b.content) >> \o rest)
           ELSE IF a.kind = "code" /\ b.kind = "code"
           THEN merge_adjacent(
                  << CodeItem(a.content \o << Backtick, Backtick >>
                              \o b.content) >> \o rest)
           ELSE << a >> \o merge_adjacent(Tail(items))

\* the children the parser gives for items of which no two of a kind stand
\* side by side
RECURSIVE children_of_merged(_)
children_of_merged(items) ==
  IF items = <<>> THEN <<>>
  ELSE LET item == Head(items)
       IN  (CASE item.kind = "text" -> << TextChild(item.content) >>
              [] item.kind = "image" -> << Child("image", <<>>, <<>>, <<>>) >>
              [] item.kind = "code" ->
                   << Child("code_inline", item.content, << Backtick >>,
                            <<>>) >>
              [] item.kind = "link" ->
                   << Child("link_open", <<>>, <<>>, item.href) >>
                   \o children_of_merged(merge_adjacent(item.inner))
                   \o << Child("link_close", <<>>, <<>>, <<>>) >>)
           \o children_of_merged(Tail(items))

\* the children the parser gives for the items of a span
children_of(items) == children_of_merged(merge_adjacent(items))

\* children in any order, also such as no document gives: a closing marker
\* without a link, a link left open
LooseChildren ==
  { TextChild(<<"a">>), Child("image", <<>>, <<>>, <<>>),
    Child("link_open", <<>>, <<>>, <<"u">>),
    Child("link_close", <<>>, <<>>, <<>>),
    Child("softbreak", <<>>, <<>>, <<>>),
    Child("em_open", <<>>, <<"*">>, <<>>) }

\* _extract_inline_text is about to be called on an inline token with these
\* children; items are the items of the span when it was built of items
InlineStart(items, shaped, children) ==
  [op |-> "inline", pc |-> "children", items |-> items, shaped |-> shaped,
   children |-> children, text |-> <<>>]

\* the call _extract_inline_text(token)
RebuildInline ==
  /\ pf.op = "inline"
  /\ pf.pc = "children"
  /\ \E text \in {extract_inline_text(InlineToken(<<>>, pf.children))} :
       pf' = [pf EXCEPT !.text = text, !.pc = "done"]
  /\ UNCHANGED << exists, docs, progress, cli, gui, report, hist >>

InitInline ==
  /\ NoSession
  /\ \/ \E items \in SeqsUpTo(SpanItems, MaxSpanItems) :
          pf = InlineStart(items, TRUE, children_of(items))
     \/ \E children \in SeqsUpTo(LooseChildren, MaxSpanItems) :
          pf = InlineStart(<<>>, FALSE, children)

SpecInline == InitInline /\ [][RebuildInline]_vars

\* the link holds an image
HoldsImage(item) == \E k \in 1..Len(item.inner) : item.inner[k].kind = "image"

\* the text a span is expected to give: text and code as they are, nothing
\* for an image, nothing for a link that holds an image, and the link
\* written out otherwise
RECURSIVE Rebuilt(_)
Rebuilt(items) ==
  IF items = <<>> THEN <<>>
  ELSE LET item == Head(items)
       IN  (CASE item.kind = "text" -> item.content
              [] item.kind = "image" -> <<>>
              [] item.kind = "code" ->
                   << Backtick >> \o item.content \o << Backtick >>
              [] item.kind = "link" ->
                   IF HoldsImage(item) THEN <<>>
                   ELSE <<"[">> \o Rebuilt(item.inner) \o <<"]", "(">>
                        \o item.href \o <<")">>)
           \o Rebuilt(Tail(items))

\* s is a string
IsString(s) == s \in Seq(STRING)

\* C23: links in _extract_inline_text.  A link without an image is rebuilt
\* as '[' + its text + '](' + its address + ')'; a link that holds an image
\* leaves nothing in the text, while everything outside it is kept; and the
\* call gives a string for every sequence of children.
C23_LinksRebuilt ==
  (pf.op = "inline" /\ pf.pc = "done") =>
    /\ IsString(pf.text)
    /\ pf.shaped => pf.text = Rebuilt(pf.items)

\* a text, then a link with a text and an image, then a link with a text:
\* the first link left nothing, the text before it and the link after it
\* are there
C23_Witness ==
  /\ pf.op = "inline" /\ pf.pc = "done"
  /\ pf.shaped
  /\ pf.items = << TextItem(<<"a">>),
                   LinkItem(<< TextItem(<<"t">>), ImageItem >>, <<"u">>),
                   LinkItem(<< TextItem(<<"t">>) >>, <<"u">>) >>
  /\ pf.text = <<"a", "[", "t", "]", "(", "u", ")">>

\* ---------------------------------------------------------------------
\* The suggestion-generation worker: pause, resume, stop
\* ---------------------------------------------------------------------

\* the number of lines of the change file handed to the worker
MaxWorkLines == 2

\* the number of keys pressed during a run of the CLI loop
MaxKeys == 3

\* PauseController.poll(): the pending keys are read in their order; P
\* toggles paused, Q sets stop
RECURSIVE poll(_, _, _)
poll(keys, paused, stop) ==
  IF keys = <<>> THEN [paused |-> paused, stop |-> stop]
  ELSE IF Head(keys) = "p" THEN poll(Tail(keys), ~paused, stop)
  ELSE poll(Tail(keys), paused, TRUE)

\* the worker before its first line.  driver is "cli" (checker_ai.main with
\* its PauseController) or "gui" (AiWorker.run); paused is
\* PauseController.paused, or the pause event being clear; stop is
\* PauseController.stop, or the stop event being set; keys are the keys
\* pressed and not yet read; asked tells that stop was asked for (Q pressed,
\* or stop() called) and asked_at where the worker stood when it was first
\* asked for; calls are the suggestion calls started, each with the line it
\* is for, whether stop had been asked for when it started, and where the
\* worker stood then; blank are the lines of the change file that have no
\* content; failed tells that the run was ended by sys.exit(1).
\* The worker stands at "boundary" (top of the loop), at "wait" (the stop
\* test passed, the wait not yet entered), at "waiting" (asleep in the
\* wait), at "call" (in get_ai_response) or at "done".
WorkerStart(driver, total, blank) ==
  [op |-> "worker", driver |-> driver, total |-> total, blank |-> blank,
   idx |-> 0, pc |-> "boundary", paused |-> FALSE, stop |-> FALSE,
   keys |-> <<>>, pressed |-> 0, asked |-> FALSE, asked_at |-> "none",
   calls |-> <<>>, written |-> 0, failed |-> FALSE]

\* the line at idx + 1 is taken: AiWorker.run passes over a line without
\* content (lines 610-612); otherwise, and in checker_ai.main for every
\* line, the suggestion call for the line starts
BeginCall(w) ==
  IF w.driver = "gui" /\ (w.idx + 1) \in w.blank
  THEN [w EXCEPT !.idx = w.idx + 1, !.pc = "boundary"]
  ELSE [w EXCEPT !.pc = "call",
                 !.calls = Append(w.calls,
                                  [line |-> w.idx + 1, asked |-> w.asked,
                                   asked_at |-> w.asked_at])]

\* checker_ai.main, top of the loop: poll(), the stop test, and
\* wait_if_paused() up to its first test
CliBoundary ==
  /\ pf.op = "worker" /\ pf.driver = "cli"
  /\ pf.pc = "boundary"
  /\ \E c \in {poll(pf.keys, pf.paused, pf.stop)} :
       \E w \in {[pf EXCEPT !.keys = <<>>, !.paused = c.paused,
                            !.stop = c.stop]} :
         pf' = IF pf.idx = pf.total THEN [pf EXCEPT !.pc = "done"]
               ELSE IF c.stop THEN [w EXCEPT !.pc = "done"]
               ELSE IF c.paused THEN [w EXCEPT !.pc = "waiting"]
               ELSE BeginCall(w)
  /\ UNCHANGED << exists, docs, progress, cli, gui, report, hist >>

\* PauseController.wait_if_paused: one sleep and poll(), then the test of
\* the loop, and after the loop the second stop test of main
CliWait ==
  /\ pf.op = "worker" /\ pf.driver = "cli"
  /\ pf.pc = "waiting"
  /\ pf.keys # <<>>
  /\ \E c \in {poll(pf.keys, pf.paused, pf.stop)} :
       \E w \in {[pf EXCEPT !.keys = <<>>, !.paused = c.paused,
                            !.stop = c.stop]} :
         pf' = IF c.paused /\ ~c.stop THEN w
               ELSE IF c.stop THEN [w EXCEPT !.pc = "done"]
               ELSE BeginCall(w)
  /\ UNCHANGED << exists, docs, progress, cli, gui, report, hist >>

\* a key is pressed while the CLI loop runs
PressKey ==
  /\ pf.op = "worker" /\ pf.driver = "cli"
  /\ pf.pc # "done"
  /\ pf.pressed < MaxKeys
  /\ \E k \in {"p", "q"} :
       pf' = [pf EXCEPT !.keys = Append(pf.keys, k),
                        !.pressed = pf.pressed + 1,
                        !.asked = pf.asked \/ k = "q",
                        !.asked_at = IF ~pf.asked /\ k = "q" THEN pf.pc
                                     ELSE pf.asked_at]
  /\ UNCHANGED << exists, docs, progress, cli, gui, report, hist >>

\* AiWorker.run, top of the loop (lines 603-606): the end of the lines, or
\* the stop test.  The UI thread runs beside the worker thread without a
\* lock, so the call of _wait_if_paused that follows is a step of its own.
GuiBoundary ==
  /\ pf.op = "worker" /\ pf.driver = "gui"
  /\ pf.pc = "boundary"
  /\ pf' = IF pf.idx = pf.total THEN [pf EXCEPT !.pc = "done"]
           ELSE IF pf.stop THEN [pf EXCEPT !.pc = "done"]
           ELSE [pf EXCEPT !.pc = "wait"]
  /\ UNCHANGED << exists, docs, progress, cli, gui, report, hist >>

\* AiWorker._wait_if_paused, entered (lines 624-627): the pause event is
\* set, or it is clear and the stop event is set, and run goes on with the
\* line; or the worker sleeps
GuiEnterWait ==
  /\ pf.op = "worker" /\ pf.driver = "gui"
  /\ pf.pc = "wait"
  /\ pf' = IF pf.paused /\ ~pf.stop THEN [pf EXCEPT !.pc = "waiting"]
           ELSE BeginCall(pf)
  /\ UNCHANGED << exists, docs, progress, cli, gui, report, hist >>

\* AiWorker._wait_if_paused after a sleep: the loop is left when the pause
\* event is set or the stop event is set; run goes on with the line
GuiWait ==
  /\ pf.op = "worker" /\ pf.driver = "gui"
  /\ pf.pc = "waiting"
  /\ ~pf.paused \/ pf.stop
  /\ pf' = BeginCall(pf)
  /\ UNCHANGED << exists, docs, progress, cli, gui, report, hist >>

\* AiWorker.pause(), from the UI thread: the pause event is cleared
GuiPause ==
  /\ pf.op = "worker" /\ pf.driver = "gui"
  /\ pf.pc # "done"
  /\ pf' = [pf EXCEPT !.paused = TRUE]
  /\ UNCHANGED << exists, docs, progress, cli, gui, report, hist >>

\* AiWorker.resume(), from the UI thread: the pause event is set
GuiResume ==
  /\ pf.op = "worker" /\ pf.driver = "gui"
  /\ pf.pc # "done"
  /\ pf' = [pf EXCEPT !.paused = FALSE]
  /\ UNCHANGED << exists, docs, progress, cli, gui, report, hist >>

\* AiWorker.stop(), from the UI thread: the stop event and the pause event
\* are set
GuiStop ==
  /\ pf.op = "worker" /\ pf.driver = "gui"
  /\ pf.pc # "done"
  /\ pf' = [pf EXCEPT !.stop = TRUE, !.paused = FALSE, !.asked = TRUE,
                      !.asked_at = IF pf.asked THEN pf.asked_at ELSE pf.pc]
  /\ UNCHANGED << exists, docs, progress, cli, gui, report, hist >>

\* what a reply leads to in checker_ai.main (lines 283-292): the line is
\* written; or it is passed over, the reply being a JSON object that reports
\* no error; or the run ends with exit status 1, the reply being JSON and no
\* object.  AiWorker.run writes every reply (lines 613-614).
ReplyOutcomes(driver, blank_line) ==
  IF driver = "cli" /\ ~blank_line THEN {"write", "skip", "exit"}
  ELSE {"write"}

\* get_ai_response returns and the delay is slept; for a line without
\* content the reply is the empty text, which checker_ai.main writes
WorkerCall ==
  /\ pf.op = "worker"
  /\ pf.pc = "call"
  /\ \E outcome \in ReplyOutcomes(pf.driver, (pf.idx + 1) \in pf.blank) :
       pf' = IF outcome = "exit"
             THEN [pf EXCEPT !.pc = "done", !.failed = TRUE]
             ELSE [pf EXCEPT
                     !.idx = pf.idx + 1,
                     !.written = IF outcome = "skip" THEN pf.written
                                 ELSE pf.written + 1,
                     !.pc = "boundary"]
  /\ UNCHANGED << exists, docs, progress, cli, gui, report, hist >>

\* the steps of the worker itself
WorkerStep ==
  CliBoundary \/ CliWait \/ GuiBoundary \/ GuiEnterWait \/ GuiWait \/ WorkerCall

\* what the user does
UiStep == PressKey \/ GuiPause \/ GuiResume \/ GuiStop

InitWorker ==
  /\ NoSession
  /\ \E driver \in {"cli", "gui"}, total \in 1..MaxWorkLines :
       \E blank \in SUBSET (1..total) :
         pf = WorkerStart(driver, total, blank)

\* the worker is not held up for ever; the user may do anything or nothing
SpecWorker ==
  /\ InitWorker
  /\ [][WorkerStep \/ UiStep]_vars
  /\ WF_vars(WorkerStep)

\* C24: cancellation at the record boundary.  Once stop has been asked for,
\* no suggestion call is started for a line that had not begun, also when
\* stop comes while the worker is paused before the line.  A line has begun
\* when the pass of the loop for it is beyond its stop test: a call that
\* starts after a stop asked for between that test and the wait is not
\* counted.
C24_NoCallAfterStop ==
  (pf.op = "worker") =>
    \A k \in 1..Len(pf.calls) :
      pf.calls[k].asked => pf.calls[k].asked_at = "wait"

\* stop asked for after the stop test of a line and before its wait: the
\* call for that line starts, and no other
C24_BegunLineOnly ==
  (pf.op = "worker") =>
    \A k \in 1..Len(pf.calls) :
      (pf.calls[k].asked /\ pf.calls[k].asked_at = "wait") =>
        /\ k = Len(pf.calls)
        /\ pf.idx \in {pf.calls[k].line - 1, pf.calls[k].line}

\* the CLI loop honours stop: it tests stop again after the wait
C24_CliNoCallAfterStop ==
  (pf.op = "worker" /\ pf.driver = "cli") =>
    \A k \in 1..Len(pf.calls) : ~pf.calls[k].asked

\* a worker that is asked to stop comes to its end
C24_StopTerminates ==
  (pf.op = "worker" /\ pf.asked) ~> (pf.pc = "done")

\* a paused worker leaves the wait once the pause is lifted or stop is set,
\* unless it is paused again first
C24_WaitIsLeft ==
  (pf.op = "worker" /\ pf.pc = "waiting" /\ (~pf.paused \/ pf.stop)
   /\ pf.keys = <<>>)
    ~> (pf.pc # "waiting" \/ (pf.paused /\ ~pf.stop))

\* ---------------------------------------------------------------------
\* The source of a record, recovered from its label
\* ---------------------------------------------------------------------

\* the length of the name of a source document
MaxSourceLen == 3

SourceChars == {"a", "@", "|", " ", "/"}

\* the ordinals the records are written under
SourceOrdinals == {1, 2}

\* the names that do not hold two @ in a row
SourceNames ==
  {s \in SeqsUpTo(SourceChars, MaxSourceLen) \ { <<>> } :
     ~Contains(s, <<"@", "@">>)}

\* the source_id a writer puts into its labels: write_to_txt is given the
\* path of the document and writes its base name, save_to_file writes
\* change['file'] as it is
source_id_of(writer, source) ==
  IF writer = "write_to_txt" THEN basename(source) ELSE source

\* a ledger writer is about to write idx records of the document source
SourceStart(writer, idx, source) ==
  [op |-> "source", pc |-> "tag", writer |-> writer, idx |-> idx,
   source |-> source, source_id |-> source_id_of(writer, source),
   line |-> <<>>, label |-> <<>>, filename |-> <<>>]

\* the text the writer writes for idx records of one source
written_by(writer, idx, source) ==
  IF writer = "write_to_txt"
  THEN write_to_txt([i \in 1..idx |-> <<"x">>], source)
  ELSE save_to_file([i \in 1..idx |-> [file |-> source, content |-> <<"x">>]])

\* the writer writes the records; the loader strips the line of the last
\* record and splits the label off; mode_review_changes parses the label
RecoverSource ==
  /\ pf.op = "source"
  /\ pf.pc = "tag"
  /\ \E line \in {IterLines(written_by(pf.writer, pf.idx, pf.source))[pf.idx]} :
       \E label \in {split_label(Strip(line))[1]} :
         pf' = [pf EXCEPT !.line = line, !.label = label,
                          !.filename = parse_label(label)[2],
                          !.pc = "done"]
  /\ UNCHANGED << exists, docs, progress, cli, gui, report, hist >>

InitSource ==
  /\ NoSession
  /\ \E writer \in LedgerWriters, idx \in SourceOrdinals,
        source \in SourceNames :
       pf = SourceStart(writer, idx, source)

SpecSource == InitSource /\ [][RecoverSource]_vars

\* C25: source recovery from a label.  For every label a ledger writer
\* wrote for an ordinal and a source name that does not hold the sentinel,
\* parse_label gives that source name back, also when the name holds a
\* single '@', a '|', spaces or path separators.
C25_SourceRecovered ==
  (pf.op = "source" /\ pf.pc = "done") => pf.filename = pf.source_id

\* the source name comes back whenever it holds no '@' at all
C25_SourceRecoveredWithoutAt ==
  (/\ pf.op = "source" /\ pf.pc = "done"
   /\ \A i \in 1..Len(pf.source_id) : pf.source_id[i] # "@") =>
    pf.filename = pf.source_id

\* ---------------------------------------------------------------------
\* The saved cursor and the paths the next session compares it against
\* ---------------------------------------------------------------------

\* the two path texts of the cursor file are the resolved texts of the
\* same two files, the ones a later session compares them against
WrittenAsCompared(prog) ==
  /\ prog.change_file = Resolve(prog.change_file)
  /\ prog.change_out_file = Resolve(prog.change_out_file)

\* C26: a saved cursor is always recognised by its own file pair.  The two
\* path texts save_review_progress wrote are equal to the two resolved
\* texts the next session over the same two files compares the stored
\* cursor against, however the front end obtained the paths.
C26_CursorRecognised == progress.present => WrittenAsCompared(progress)

\* a step of the CLI session writes the cursor with the texts a later
\* session compares it against
C26_CliCursorRecognised ==
  [][(/\ cli' # cli /\ gui' = gui
      /\ progress' # progress
      /\ progress'.present) => WrittenAsCompared(progress')]_vars

\* ---------------------------------------------------------------------
\* The cursor and the regeneration of the ledger files
\* ---------------------------------------------------------------------

\* the two front ends with the runs that write the ledger files and the
\* clearing of the cache: the modes of the main menu of checker.py and the
\* start button and the cache button of the window.  The user of the window
\* takes no side step.
RegenNext ==
  \/ CliList
  \/ \E ci \in {MenuNone, 0, 1} : CliChooseChange(ci)
  \/ \E oi \in {MenuNone, 0, 1} : CliChooseOut(oi)
  \/ \E custom \in PickedFiles, io \in ReadOutcomes : CliCheck(NoDoc, custom, io)
  \/ \E t \in CliInputs, io \in IoOutcomes : CliDecide(t, io)
  \/ CliSave
  \/ CliFinish
  \/ \E mode \in RunModes, io \in ReadOutcomes : CliExtract(mode, io)
  \/ \E io \in ReadOutcomes : CliAiOpen(io)
  \/ CliAiLine
  \/ CliAiEnd
  \/ \E kept \in SUBSET DOMAIN exists : CliClear(kept)
  \/ GuiOpen
  \/ GuiClose
  \/ \E mode \in RunModes : GuiRunStart(mode)
  \/ \E io \in ReadOutcomes : GuiRunPrepare(io)
  \/ \E goes_on \in BOOLEAN : GuiRunOpen(goes_on)
  \/ GuiRunLine
  \/ \E signal \in {"finished", "failed"} : GuiRunEnd(signal)
  \/ \E kept \in SUBSET DOMAIN exists : GuiClearCache(kept)
  \/ \E pr \in GuiPairs : GuiChooseFile("change_field", pr[1])
  \/ \E pr \in GuiPairs : GuiChooseFile("out_field", pr[2])
  \/ \E io \in ReadOutcomes : GuiLoad(io)
  \/ \E resume \in {"Yes", "No"}, io \in ReadOutcomes : GuiAnswerResume(resume, io)
  \/ \E io \in ReadOutcomes : GuiSkip(io)
  \/ \E t \in GuiInputs, io \in IoOutcomes, io2 \in ReadOutcomes :
       GuiApply(t, io, io2)
  \/ \E p \in PickedFiles, io \in IoOutcomes, io2 \in ReadOutcomes :
       GuiAnswerFile(p, io, io2)
  \/ \E io \in ReadOutcomes : GuiAnswerWarning(io)
  \/ \E io \in ReadOutcomes : GuiTimer(io)

SpecRegen == InitRegen /\ [][RegenNext]_vars

\* C27: a cursor never survives the regeneration of its ledger.  When a
\* session was quit at an index k > 0 and the two files of its pair were
\* then written anew by an extraction run (of the main menu or of the
\* window), or removed by clear_output_cache and written anew, the next
\* session over the two paths starts at index 0.
C27_CursorDropped ==
  (/\ cli.pc \in {"loop", "input", "save"}
   /\ cli.prev.kind = "quit"
   /\ cli.prev.k > 0
   /\ cli.prev.change = cli.change_path
   /\ cli.prev.out = cli.change_out_path
   /\ {cli.change_path.name, cli.change_out_path.name}
        \subseteq hist.touched) =>
    cli.start_index = 0

\* ---------------------------------------------------------------------
\* The two file menus of mode_review_changes
\* ---------------------------------------------------------------------

\* the number of files of the output directory
MaxDirFiles == 3

\* the names the output directory may hold
MenuNames ==
  { <<"a", ".", "t", "x", "t">>,
    <<"a", "_", "o", "u", "t", ".", "t", "x", "t">>,
    <<"z", ".", "t", "x", "t">>,
    <<"z", "_", "o", "u", "t", ".", "t", "x", "t">>,
    <<"o", "u", "t", ".", "t", "x", "t">>,
    <<"a", "_", "o", "u", "t", "_", "b", ".", "t", "x", "t">> }

\* ord() of the characters of the names
CharCode(c) ==
  CASE c = "." -> 46 [] c = "_" -> 95 [] c = "a" -> 97 [] c = "b" -> 98
    [] c = "o" -> 111 [] c = "t" -> 116 [] c = "u" -> 117 [] c = "x" -> 120
    [] c = "z" -> 122

\* a < b of two paths of one directory: the order of their names
RECURSIVE name_less(_, _)
name_less(a, b) ==
  IF b = <<>> THEN FALSE
  ELSE IF a = <<>> THEN TRUE
  ELSE IF Head(a) # Head(b) THEN CharCode(Head(a)) < CharCode(Head(b))
  ELSE name_less(Tail(a), Tail(b))

\* sorted(...) of a set of paths of one directory
RECURSIVE sorted_names(_)
sorted_names(S) ==
  IF S = {} THEN <<>>
  ELSE LET first == CHOOSE n \in S : \A m \in S \ {n} : name_less(n, m)
       IN  << first >> \o sorted_names(S \ {first})

\* Path.stem: the name without its last suffix
path_stem(name) == SubSeq(name, 1, Len(name) - 4)

\* "_out" not in p.stem
in_change_menu(name) == ~Contains(path_stem(name), <<"_", "o", "u", "t">>)

\* p.name.endswith("_out.txt")
ends_with_out_txt(name) ==
  /\ Len(name) >= 8
  /\ SubSeq(name, Len(name) - 7, Len(name))
       = <<"_", "o", "u", "t", ".", "t", "x", "t">>

\* lines 467-471: the names the change-file menu shows
change_options_of(output_files) == SelectSeq(output_files, in_change_menu)

\* lines 482-486: the files the suggestion-file menu is built from
change_out_candidates_of(output_files) ==
  IF SelectSeq(output_files, ends_with_out_txt) = <<>> THEN output_files
  ELSE SelectSeq(output_files, ends_with_out_txt)

\* mode_review_changes is entered with the output directory holding dir
MenuStart(dir) ==
  [op |-> "menu", pc |-> "change_menu", dir |-> dir,
   output_files |-> sorted_names(dir),
   shown_change |-> <<>>, change_path |-> <<>>,
   shown_out |-> <<>>, change_out_path |-> <<>>]

\* lines 459-480: the listing, the change-file menu, the file taken
ChooseChange ==
  /\ pf.op = "menu"
  /\ pf.pc = "change_menu"
  /\ \E change_options \in {change_options_of(pf.output_files)} :
     \E selected_change_index \in MenuChoices(change_options) :
       pf' = IF selected_change_index = MenuNone
             THEN [pf EXCEPT !.pc = "returned"]
             ELSE [pf EXCEPT
                     !.pc = "out_menu",
                     !.shown_change = change_options[selected_change_index + 1],
                     !.change_path = pf.output_files[selected_change_index + 1]]
  /\ UNCHANGED << exists, docs, progress, cli, gui, report, hist >>

\* lines 482-497: the suggestion-file menu, the file taken
ChooseOut ==
  /\ pf.op = "menu"
  /\ pf.pc = "out_menu"
  /\ \E change_out_candidates \in {change_out_candidates_of(pf.output_files)} :
     \E selected_out_index \in MenuChoices(change_out_candidates) :
       pf' = IF selected_out_index = MenuNone
             THEN [pf EXCEPT !.pc = "returned"]
             ELSE [pf EXCEPT
                     !.pc = "chosen",
                     !.shown_out = change_out_candidates[selected_out_index + 1],
                     !.change_out_path =
                        change_out_candidates[selected_out_index + 1]]
  /\ UNCHANGED << exists, docs, progress, cli, gui, report, hist >>

InitMenu ==
  /\ NoSession
  /\ \E dir \in SUBSET MenuNames :
       /\ dir # {}
       /\ Cardinality(dir) <= MaxDirFiles
       /\ pf = MenuStart(dir)

SpecMenu == InitMenu /\ [][ChooseChange \/ ChooseOut]_vars

\* C28: the file selection of the CLI.  For every content of the output
\* directory and every choice in the two menus, the change file of the
\* session is the file whose name the change-file menu showed at the chosen
\* position, and the suggestion file is the file the suggestion-file menu
\* showed at the chosen position.
C28_FilesAsDisplayed ==
  (pf.op = "menu" /\ pf.pc = "chosen") =>
    /\ pf.change_path = pf.shown_change
    /\ pf.change_out_path = pf.shown_out

\* the suggestion file is the one shown at the chosen position
C28_SuggestionAsDisplayed ==
  (pf.op = "menu" /\ pf.pc = "chosen") => pf.change_out_path = pf.shown_out

\* the change file is the one shown whenever no name of the directory that
\* sorts before the one chosen is left out of the change-file menu
C28_ChangeAsDisplayedWhenNoneLeftOut ==
  (/\ pf.op = "menu" /\ pf.pc \in {"out_menu", "chosen"}
   /\ \A i \in 1..Len(pf.output_files) :
        name_less(pf.output_files[i], pf.shown_change) =>
          in_change_menu(pf.output_files[i])) =>
    pf.change_path = pf.shown_change

\* ---------------------------------------------------------------------
\* The two drivers of the suggestion run: checker_ai.main and AiWorker.run
\* ---------------------------------------------------------------------

\* the number of lines of the change file
MaxDriverLines == 2

\* the contents of the lines of the change file
DriverContents == { Txt_a, Txt_b }

\* the lines of the change file: two records and an empty line
DriverLines ==
  { Tag(1, DocName("d")) \o Txt_a, Tag(2, DocName("d")) \o Txt_b, <<>> }

\* the payloads the suggestion function may return for a content: an error
\* found, no error found, a text that is no JSON, a JSON string (JSON, but
\* no object), an object whose error_type is null
AiResponses ==
  { model_dump_json([original_text |-> Txt_a, error_type |-> <<"t">>,
                     description |-> <<"e">>, checked_text |-> Txt_x]),
    model_dump_json([original_text |-> Txt_a, error_type |-> <<>>,
                     description |-> <<>>, checked_text |-> Txt_a]),
    Txt_x,
    JsonString(Txt_x),
    <<"{">> \o JsonString(Key_error_type) \o <<":">> \o JsonNullText \o <<"}">> }

\* get_ai_response: an empty content is answered with an empty text without
\* a request; otherwise the reply of the model for the content
get_ai_response(reply, content) ==
  IF content = <<>> THEN <<>> ELSE reply[content]

\* f_in.readlines() of checker_ai.main
cli_read_lines(text) == IterLines(text)

\* read_text().splitlines() of AiWorker.run, for a text whose only line
\* boundaries are line feeds
RECURSIVE splitlines_from(_, _)
splitlines_from(text, cur) ==
  IF text = <<>> THEN (IF cur = <<>> THEN <<>> ELSE << cur >>)
  ELSE IF Head(text) = "\n"
       THEN << cur >> \o splitlines_from(Tail(text), <<>>)
       ELSE splitlines_from(Tail(text), Append(cur, Head(text)))

gui_read_lines(text) == splitlines_from(ReadText(text), <<>>)

\* result_json.get("error_type"): None when the key is missing
DictGetNone(members, key) ==
  IF key \in DOMAIN members THEN members[key] ELSE JsonNull

\* checker_ai.main, lines 283-288: the result parses as a JSON object and
\* its error_type is missing, null, empty or blank
cli_skips(ai_result) ==
  /\ json_loads(ai_result).object
  /\ LET error_type == DictGetNone(json_loads(ai_result).members,
                                   Key_error_type)
     IN  error_type = JsonNull \/ Strip(error_type) = <<>>

\* checker_ai.main, lines 283-300: the result parses as JSON and is no
\* object; .get raises AttributeError, which the handler of line 297 takes:
\* sys.exit(1)
cli_aborts(ai_result) == json_loads_other(ai_result)

\* checker_ai.main, lines 277-292: what one line adds to the output file
cli_line_output(reply, line) ==
  LET parts     == split_label(Strip(line))
      ai_result == get_ai_response(reply, parts[2])
  IN  IF cli_skips(ai_result) \/ cli_aborts(ai_result) THEN <<>>
      ELSE << parts[1] \o ai_result \o <<"\n">> >>

\* checker_ai.main, lines 283-300: the line ends the run with exit status 1
cli_line_aborts(reply, line) ==
  cli_aborts(get_ai_response(reply, split_label(Strip(line))[2]))

\* AiWorker.run, lines 608-614: what one line adds to the output file
gui_line_output(reply, line) ==
  LET parts  == split_label(Strip(line))
      result == get_ai_response(reply, parts[2])
  IN  IF parts[2] = <<>> THEN <<>>
      ELSE << parts[1] \o result \o <<"\n">> >>

\* both drivers are started on the change file text
DriversStart(text, reply) ==
  [op |-> "drivers", text |-> text, reply |-> reply,
   cli_lines |-> cli_read_lines(text), cli_idx |-> 0, cli_out |-> <<>>,
   cli_exit |-> IF cli_read_lines(text) = <<>> THEN 0 ELSE -1,
   gui_lines |-> gui_read_lines(text), gui_idx |-> 0, gui_out |-> <<>>]

\* one pass of the loop of checker_ai.main, with no key pressed; cli_exit
\* is the exit status of the run, -1 while it runs
CliDriverLine ==
  /\ pf.op = "drivers"
  /\ pf.cli_exit = -1
  /\ pf.cli_idx < Len(pf.cli_lines)
  /\ \E added \in {cli_line_output(pf.reply, pf.cli_lines[pf.cli_idx + 1])},
        aborts \in {cli_line_aborts(pf.reply, pf.cli_lines[pf.cli_idx + 1])} :
       pf' = IF aborts THEN [pf EXCEPT !.cli_exit = 1]
             ELSE [pf EXCEPT !.cli_idx = @ + 1, !.cli_out = @ \o added,
                             !.cli_exit = IF pf.cli_idx + 1 = Len(pf.cli_lines)
                                          THEN 0 ELSE -1]
  /\ UNCHANGED << exists, docs, progress, cli, gui, report, hist >>

\* one pass of the loop of AiWorker.run, neither paused nor stopped
GuiDriverLine ==
  /\ pf.op = "drivers"
  /\ pf.gui_idx < Len(pf.gui_lines)
  /\ \E added \in {gui_line_output(pf.reply, pf.gui_lines[pf.gui_idx + 1])} :
       pf' = [pf EXCEPT !.gui_idx = @ + 1, !.gui_out = @ \o added]
  /\ UNCHANGED << exists, docs, progress, cli, gui, report, hist >>

InitDrivers ==
  /\ NoSession
  /\ \E lines \in SeqsUpTo(DriverLines, MaxDriverLines) \ { <<>> },
        reply \in [DriverContents -> AiResponses] :
       pf = DriversStart(JoinNewline(lines) \o <<"\n">>, reply)

SpecDrivers == InitDrivers /\ [][CliDriverLine \/ GuiDriverLine]_vars

\* both drivers ran to the end of the change file
DriversDone ==
  /\ pf.op = "drivers"
  /\ pf.cli_exit = 0
  /\ pf.gui_idx = Len(pf.gui_lines)

\* the CLI loop was ended by a reply and the GUI worker came to its end
DriversEnded ==
  /\ pf.op = "drivers"
  /\ pf.cli_exit # -1
  /\ pf.gui_idx = Len(pf.gui_lines)

\* C29: the two drivers of the suggestion run are equivalent.  For the same
\* change file and the same replies of the suggestion function, the CLI
\* loop and the GUI worker, both run to the end, write the same lines of
\* the suggestion file in the same order; a record whose reply reports no
\* error (empty error_type) is treated alike by both.
C29_DriversAgree == DriversDone => pf.cli_out = pf.gui_out

\* the CLI loop comes to the end of the change file whenever the GUI worker
\* does
C29_CliRunCompletes == DriversEnded => pf.cli_exit = 0

\* the two drivers write the same lines when every line has a content and
\* no reply is a JSON object without an error_type
C29_DriversAgreeOnErrors ==
  (/\ DriversDone
   /\ \A i \in 1..Len(pf.cli_lines) :
        /\ split_label(Strip(pf.cli_lines[i]))[2] # <<>>
        /\ ~cli_skips(pf.reply[split_label(Strip(pf.cli_lines[i]))[2]])) =>
    pf.cli_out = pf.gui_out

\* the two drivers write the same lines when every line has a content
C29_DriversAgreeOnContents ==
  (/\ DriversDone
   /\ \A i \in 1..Len(pf.cli_lines) :
        split_label(Strip(pf.cli_lines[i]))[2] # <<>>) =>
    pf.cli_out = pf.gui_out

\* ---------------------------------------------------------------------
\* The scan of a line loses and repeats no text
\* ---------------------------------------------------------------------

\* the block holds a formula span $$...$$
HasFormula(block) == remove_formulas(block) # block

\* the intervals [pos, end_pos) of the iterations recorded for the line
\* start at 0, each starts where the one before ended and is not empty, and
\* the scan goes on from the end of the last one
IntervalsTile ==
  /\ \A k \in 1..Len(pf.steps) :
       /\ pf.steps[k].pos = (IF k = 1 THEN 0 ELSE pf.steps[k - 1].end_pos)
       /\ pf.steps[k].end_pos > pf.steps[k].pos
       /\ pf.steps[k].end_pos <= Len(pf.text)
       /\ pf.steps[k].next_pos = pf.steps[k].end_pos
  /\ pf.pos = (IF pf.steps = <<>> THEN 0
               ELSE pf.steps[Len(pf.steps)].end_pos)

\* C30: segmentation loses and duplicates no text.  For every block without
\* a formula span, the sentences emitted for a line, one after the other,
\* are the line when white space is removed from both: the intervals
\* [pos, end_pos) of the scan loop tile the line without gap or overlap,
\* and the zero-progress branch discards no character.
C30_NoTextLost ==
  (/\ pf.op = "split"
   /\ pf.bi >= 1
   /\ pf.li >= 1
   /\ ~HasFormula(pf.text_blocks[pf.bi])) =>
    /\ IntervalsTile
    /\ NonBlank(Flatten(pf.line_out)) = NonBlank(SubSeq(pf.text, 1, pf.pos))
    /\ pf.pc # "scan" =>
         /\ pf.pos = Len(pf.text)
         /\ NonBlank(Flatten(pf.line_out)) = NonBlank(pf.line)

\* the line "a. a" was scanned in two iterations, over [0, 2) and [2, 4),
\* and gave the sentences "a." and "a"
C30_Witness ==
  /\ pf.op = "split" /\ pf.pc = "done"
  /\ pf.text_blocks = << <<"a", ".", " ", "a">> >>
  /\ pf.line = <<"a", ".", " ", "a">>
  /\ Len(pf.steps) = 2
  /\ pf.steps[1].end_pos = 2
  /\ pf.steps[2].pos = 2 /\ pf.steps[2].end_pos = 4
  /\ pf.line_out = << <<"a", ".">>, <<"a">> >>

====
